---- MODULE Spec2Model ----
(***************************************************************************)
(* Failure-decision engine of the fallibles crate (fallible-core):         *)
(* configuration model, decision algorithm, global / thread-local slots    *)
(* and scope guards.                                                       *)
(*                                                                         *)
(* Machine words are little-endian byte sequences (u32 = 4 bytes,          *)
(* u64 = 8 bytes), so every wrapping operation keeps its width.            *)
(***************************************************************************)
EXTENDS Integers, Sequences, FiniteSets, TLC

(* ----------------------------------------------------------------------- *)
(* Word arithmetic on little-endian byte sequences                         *)
(* ----------------------------------------------------------------------- *)

RECURSIVE XorBits(_, _, _)
XorBits(a, b, n) ==
    IF n = 0 THEN 0
    ELSE (((a % 2) + (b % 2)) % 2) + 2 * XorBits(a \div 2, b \div 2, n - 1)

XorNibble == [a \in 0..15 |-> [b \in 0..15 |-> XorBits(a, b, 4)]]

Xor8(a, b) == (16 * XorNibble[a \div 16][b \div 16]) + XorNibble[a % 16][b % 16]

\* x ^ y
WXor(x, y) == [i \in 1..Len(x) |-> Xor8(x[i], y[i])]

RECURSIVE ColSum(_, _, _, _)
ColSum(x, y, k, i) ==
    IF i > k THEN 0 ELSE x[i] * y[k + 1 - i] + ColSum(x, y, k, i + 1)

RECURSIVE MulFrom(_, _, _, _)
MulFrom(x, y, k, carry) ==
    IF k > Len(x) THEN << >>
    ELSE LET s == ColSum(x, y, k, 1) + carry
         IN  << s % 256 >> \o MulFrom(x, y, k + 1, s \div 256)

\* x.wrapping_mul(y)
WMul(x, y) == MulFrom(x, y, 1, 0)

RECURSIVE AddFrom(_, _, _, _)
AddFrom(x, y, k, carry) ==
    IF k > Len(x) THEN << >>
    ELSE LET s == x[k] + y[k] + carry
         IN  << s % 256 >> \o AddFrom(x, y, k + 1, s \div 256)

\* x.wrapping_add(y)
WAdd(x, y) == AddFrom(x, y, 1, 0)

\* x.rotate_left(5)
RotL5(x) ==
    LET n == Len(x)
    IN  [i \in 1..n |-> ((x[i] * 32) % 256) + (x[IF i = 1 THEN n ELSE i - 1] \div 8)]

\* x >> 33 on a u64
Shr33(x) ==
    [i \in 1..8 |->
        IF i > 4 THEN 0
        ELSE (x[i + 4] \div 2) + (IF i + 5 <= 8 THEN (x[i + 5] % 2) * 128 ELSE 0)]

\* (x >> 32) as u32
High32(x) == << x[5], x[6], x[7], x[8] >>

\* (x as u64) for a u32 x
Widen(x) == x \o << 0, 0, 0, 0 >>

RECURSIVE LtFrom(_, _, _)
LtFrom(x, y, k) ==
    IF k = 0 THEN FALSE
    ELSE IF x[k] # y[k] THEN x[k] < y[k]
    ELSE LtFrom(x, y, k - 1)

\* x < y, unsigned
WLt(x, y) == LtFrom(x, y, Len(x))

RECURSIVE ToLeBytes(_, _)
\* n.to_le_bytes() for a value held as a natural number
ToLeBytes(n, len) ==
    IF len = 0 THEN << >> ELSE << n % 256 >> \o ToLeBytes(n \div 256, len - 1)

IsZero(x) == \A i \in 1..Len(x) : x[i] = 0

Zero32 == << 0, 0, 0, 0 >>
Zero64 == << 0, 0, 0, 0, 0, 0, 0, 0 >>
\* u32::MAX
U32Max == << 255, 255, 255, 255 >>

(* ----------------------------------------------------------------------- *)
(* fxhash (the hasher called by should_trigger and by the attribute macro) *)
(* ----------------------------------------------------------------------- *)

\* 0x9e3779b9
SEED32 == << 185, 121, 55, 158 >>
\* 0x517cc1b727220a95
SEED64 == << 149, 10, 34, 39, 183, 193, 124, 81 >>

\* hash = hash.rotate_left(5).bitxor(word).wrapping_mul(SEED)
HashWord(h, w, seed) == WMul(WXor(RotL5(h), w), seed)

\* the first n bytes of bytes, zero-extended to a word of width w
Chunk(bytes, n, w) == [i \in 1..w |-> IF i <= n THEN bytes[i] ELSE 0]

Rest(bytes, n) == SubSeq(bytes, n + 1, Len(bytes))

RECURSIVE Write32(_, _)
Write32(h, bytes) ==
    IF Len(bytes) >= 4 THEN Write32(HashWord(h, Chunk(bytes, 4, 4), SEED32), Rest(bytes, 4))
    ELSE IF Len(bytes) >= 2 THEN Write32(HashWord(h, Chunk(bytes, 2, 4), SEED32), Rest(bytes, 2))
    ELSE IF Len(bytes) >= 1 THEN HashWord(h, Chunk(bytes, 1, 4), SEED32)
    ELSE h

RECURSIVE Write64(_, _)
Write64(h, bytes) ==
    IF Len(bytes) >= 8 THEN Write64(HashWord(h, Chunk(bytes, 8, 8), SEED64), Rest(bytes, 8))
    ELSE IF Len(bytes) >= 4 THEN Write64(HashWord(h, Chunk(bytes, 4, 8), SEED64), Rest(bytes, 4))
    ELSE IF Len(bytes) >= 2 THEN Write64(HashWord(h, Chunk(bytes, 2, 8), SEED64), Rest(bytes, 2))
    ELSE IF Len(bytes) >= 1 THEN HashWord(h, Chunk(bytes, 1, 8), SEED64)
    ELSE h

\* fxhash::hash32 of a byte slice: length prefix, then the bytes
hash32(bytes) == Write32(HashWord(Zero32, ToLeBytes(Len(bytes), 4), SEED32), bytes)

\* fxhash::hash64 of a byte slice
hash64(bytes) == Write64(HashWord(Zero64, ToLeBytes(Len(bytes), 8), SEED64), bytes)

(* ----------------------------------------------------------------------- *)
(* Bounds and sampled inputs                                               *)
(* ----------------------------------------------------------------------- *)

\* configurations boxed over one run (allocation identities, never reused)
MaxConfigs == 2
\* guards alive at once
MaxGuards == 2
\* evaluations routed to one configuration
MaxCalls == 4
\* the same, in the specification of the state manager
MaxManagerCalls == 2

\* the main thread and one it spawned; thread t is ThreadId(t)
Threads == { 1, 2 }
Addrs   == 1..MaxConfigs
Guards  == 1..MaxGuards

\* FailurePointId of read_config and of fetch_data: fxhash::hash32 of the name
IdReadConfig == hash32(<< 114, 101, 97, 100, 95, 99, 111, 110, 102, 105, 103 >>)
IdFetchData  == hash32(<< 102, 101, 116, 99, 104, 95, 100, 97, 116, 97 >>)
Points == { IdReadConfig, IdFetchData }

\* what one evaluation can read from the clock and from its stack frame
EntropySamples ==
    { [nanos      |-> << 21, 177, 140, 14, 0, 110, 228, 24 >>,
       stack_addr |-> << 72, 27, 60, 90, 253, 127, 0, 0 >>],
      [nanos      |-> << 5, 69, 34, 22, 242, 204, 231, 24 >>,
       stack_addr |-> << 16, 111, 46, 141, 252, 127, 0, 0 >>] }
NoEntropy == [nanos |-> Zero64, stack_addr |-> Zero64]

\* 12345 and 67890 as in test_seeded_randomness, and 0
SeedSamples == { Zero64, << 57, 48, 0, 0, 0, 0, 0, 0 >>, << 50, 9, 1, 0, 0, 0, 0, 0 >> }
\* probabilities as fractions, two of them outside [0, 1]
ProbSamples == { << 0, 1 >>, << 3, 10 >>, << 1, 1 >>, << 3, 2 >>, << -1, 2 >> }
EverySamples == { 0, 2, 3 }
PredSamples == { "none", "never", "flag" }

(* ----------------------------------------------------------------------- *)
(* Configuration model: FailureConfig and its builder                      *)
(* ----------------------------------------------------------------------- *)

\* FailureConfig::new()
new ==
    [ enabled_points     |-> << >>,
      probability        |-> Zero32,
      counter            |-> 0,
      trigger_every      |-> 0,
      on_check           |-> "none",
      on_failure         |-> "none",
      failures_triggered |-> 0,
      seed               |-> Zero64,
      predicate          |-> "none" ]

\* FailureConfig::enable_all()
enable_all ==
    [ enabled_points     |-> << >>,
      probability        |-> U32Max,
      counter            |-> 0,
      trigger_every      |-> 0,
      on_check           |-> "none",
      on_failure         |-> "none",
      failures_triggered |-> 0,
      seed               |-> Zero64,
      predicate          |-> "none" ]

RECURSIVE DivFrom(_, _, _, _)
\* long division of a little-endian word by a small divisor, limbs k..1
DivFrom(x, d, k, rem) ==
    IF k = 0 THEN << >>
    ELSE LET cur == rem * 256 + x[k]
         IN  DivFrom(x, d, k - 1, cur % d) \o << cur \div d >>

\* (prob * u32::MAX as f64) as u32 for prob = p[1] / p[2]: the cast truncates
\* toward zero and saturates at 0 and at u32::MAX
ProbToU32(p) ==
    IF p[1] <= 0 THEN Zero32
    ELSE IF p[1] >= p[2] THEN U32Max
    ELSE LET prod == WMul(Widen(U32Max), ToLeBytes(p[1], 8))
             quot == DivFrom(prod, p[2], 8, 0)
         IN  SubSeq(quot, 1, 4)

enable_point(self, id) == [self EXCEPT !.enabled_points = Append(@, id)]

with_probability(self, prob) == [self EXCEPT !.probability = ProbToU32(prob)]

trigger_every(self, n) == [self EXCEPT !.trigger_every = n]

with_seed(self, s) == [self EXCEPT !.seed = s]

\* the decimal digits accepted by u64::from_str, by value + 1
Digits == << "0", "1", "2", "3", "4", "5", "6", "7", "8", "9" >>

IsDigit(ch) == \E i \in 1..10 : Digits[i] = ch
to_digit(ch) == (CHOOSE i \in 1..10 : Digits[i] = ch) - 1

RECURSIVE MulAddFrom(_, _, _, _)
\* x * m + carry on the limbs k.. of x; the last element is the carry out
MulAddFrom(x, m, k, carry) ==
    IF k > Len(x) THEN << carry >>
    ELSE LET s == x[k] * m + carry
         IN  << s % 256 >> \o MulAddFrom(x, m, k + 1, s \div 256)

RECURSIVE ParseDigits(_, _)
\* result.checked_mul(10) then checked_add(digit), digit by digit
ParseDigits(str, acc) ==
    IF str = << >> THEN [ok |-> TRUE, value |-> acc]
    ELSE IF ~IsDigit(Head(str)) THEN [ok |-> FALSE, value |-> Zero64]
    ELSE LET m == MulAddFrom(acc, 10, 1, to_digit(Head(str)))
         IN  IF m[9] # 0 THEN [ok |-> FALSE, value |-> Zero64]
             ELSE ParseDigits(Tail(str), SubSeq(m, 1, 8))

\* str.parse::<u64>(): an optional "+", then one or more ASCII digits, no
\* surrounding whitespace, no "-", and a value that fits 64 bits
ParseU64(str) ==
    IF str = << >> THEN [ok |-> FALSE, value |-> Zero64]
    ELSE LET digits == IF Head(str) = "+" THEN Tail(str) ELSE str
         IN  IF digits = << >> THEN [ok |-> FALSE, value |-> Zero64]
             ELSE ParseDigits(digits, Zero64)

\* std::env::var("FALLIBLE_SEED"): not present, present but not Unicode, or text
EnvUnset == [var |-> "unset", value |-> << >>]
EnvNotUnicode == [var |-> "not_unicode", value |-> << >>]
EnvText(str) == [var |-> "ok", value |-> str]

with_seed_from_env_ResetOnFailure(self, env) ==
    IF env.var = "ok" /\ ParseU64(env.value).ok
    THEN [self EXCEPT !.seed = ParseU64(env.value).value]
    ELSE [self EXCEPT !.seed = Zero64]

with_seed_from_env(self, env) ==
    IF env.var = "ok"
    THEN LET seed == ParseU64(env.value)
         IN  IF seed.ok THEN [self EXCEPT !.seed = seed.value] ELSE self
    ELSE self

when(self, pred) == [self EXCEPT !.predicate = pred]

on_check(self, callback) == [self EXCEPT !.on_check = callback]

on_failure(self, callback) == [self EXCEPT !.on_failure = callback]

chaos_monkey == with_probability(new, << 1, 10 >>)

degraded_service(degradation) == with_probability(new, degradation)

circuit_breaker(failure_threshold) == trigger_every(new, failure_threshold)

(* ----------------------------------------------------------------------- *)
(* Decision engine                                                         *)
(* ----------------------------------------------------------------------- *)

\* the closures the example program passes to when(): a constant and one
\* that loads a shared flag
Predicate(pred, flag) ==
    CASE pred = "never"  -> FALSE
      [] pred = "always" -> TRUE
      [] pred = "flag"   -> flag

\* format!("{:?}", thread_id).as_bytes() for ThreadId(t), t a single digit
ThreadIdBytes(t) == << 84, 104, 114, 101, 97, 100, 73, 100, 40, 48 + t, 41 >>

\* nanos.wrapping_add(stack_addr).wrapping_mul(thread_hash)
Entropy(t, ent) == WMul(WAdd(ent.nanos, ent.stack_addr), hash64(ThreadIdBytes(t)))

\* 0xff51afd7ed558ccd
MixA == << 205, 140, 85, 237, 215, 175, 81, 255 >>
\* 0xc4ceb9fe1a85ec53
MixB == << 83, 236, 133, 26, 254, 185, 206, 196 >>

\* the three xor-shift / multiply rounds
Avalanche(combined) ==
    LET c1 == WXor(combined, Shr33(combined))
        c2 == WMul(c1, MixA)
        c3 == WXor(c2, Shr33(c2))
        c4 == WMul(c3, MixB)
    IN  WXor(c4, Shr33(c4))

\* final_hash with the run-time entropy mixed in whether or not a seed is set
ComputeFinalHash_AlwaysEntropy(seed, fp_id, counter, t, ent) ==
    LET bytes    == fp_id \o ToLeBytes(counter, 8)
        combined == WXor(Widen(hash32(bytes)), hash64(bytes))
        seeded   == IF ~IsZero(seed) THEN WXor(combined, WMul(seed, SEED64)) ELSE combined
    IN  High32(Avalanche(WXor(seeded, Entropy(t, ent))))

\* final_hash with nothing mixed in when no seed is set
ComputeFinalHash_NoEntropy(seed, fp_id, counter, t, ent) ==
    LET bytes    == fp_id \o ToLeBytes(counter, 8)
        combined == WXor(Widen(hash32(bytes)), hash64(bytes))
        mixed    == IF ~IsZero(seed) THEN WXor(combined, WMul(seed, SEED64)) ELSE combined
    IN  High32(Avalanche(mixed))

\* final_hash of the probabilistic branch for the ordinal `counter`
ComputeFinalHash(seed, fp_id, counter, t, ent) ==
    LET bytes    == fp_id \o ToLeBytes(counter, 8)
        hash1    == hash32(bytes)
        hash2    == hash64(bytes)
        combined == WXor(Widen(hash1), hash2)
        mixed    == IF ~IsZero(seed)
                    THEN WXor(combined, WMul(seed, SEED64))
                    ELSE WXor(combined, Entropy(t, ent))
    IN  High32(Avalanche(mixed))

\* ComputeFinalHash tabulated over the sampled inputs
FinalHashTable ==
    [seed \in SeedSamples |-> [fp_id \in Points |-> [counter \in 0..MaxCalls |->
        [t \in Threads |-> [ent \in EntropySamples \cup { NoEntropy } |->
            ComputeFinalHash(seed, fp_id, counter, t, ent)]]]]]

FinalHash(self, fp_id, counter, t, ent) == FinalHashTable[self.seed][fp_id][counter][t][ent]

Contains(list, id) == \E i \in 1..Len(list) : list[i] = id

\* should_trigger with the ordinal taken after the increment
should_trigger_PostIncrement(self, fp_id, flag, t, ent) ==
    IF self.predicate # "none" /\ ~Predicate(self.predicate, flag)
    THEN [result |-> FALSE, counter |-> self.counter, ent |-> FALSE]
    ELSE IF self.enabled_points # << >> /\ ~Contains(self.enabled_points, fp_id)
    THEN [result |-> FALSE, counter |-> self.counter, ent |-> FALSE]
    ELSE IF self.trigger_every > 0
    THEN [result |-> ((self.counter + 1) % self.trigger_every) = 0,
          counter |-> self.counter + 1, ent |-> FALSE]
    ELSE IF ~IsZero(self.probability)
    THEN [result |-> WLt(FinalHash(self, fp_id, self.counter + 1, t, ent), self.probability),
          counter |-> self.counter + 1, ent |-> IsZero(self.seed)]
    ELSE [result |-> FALSE, counter |-> self.counter, ent |-> FALSE]

\* should_trigger without the predicate gate
should_trigger_NoPredicate(self, fp_id, flag, t, ent) ==
    IF self.enabled_points # << >> /\ ~Contains(self.enabled_points, fp_id)
    THEN [result |-> FALSE, counter |-> self.counter, ent |-> FALSE]
    ELSE IF self.trigger_every > 0
    THEN [result |-> (self.counter % self.trigger_every) = 0,
          counter |-> self.counter + 1, ent |-> FALSE]
    ELSE IF ~IsZero(self.probability)
    THEN [result |-> WLt(FinalHash(self, fp_id, self.counter, t, ent), self.probability),
          counter |-> self.counter + 1, ent |-> IsZero(self.seed)]
    ELSE [result |-> FALSE, counter |-> self.counter, ent |-> FALSE]

\* should_trigger without the allow-list test
should_trigger_NoAllowList(self, fp_id, flag, t, ent) ==
    IF self.predicate # "none" /\ ~Predicate(self.predicate, flag)
    THEN [result |-> FALSE, counter |-> self.counter, ent |-> FALSE]
    ELSE IF self.trigger_every > 0
    THEN [result |-> (self.counter % self.trigger_every) = 0,
          counter |-> self.counter + 1, ent |-> FALSE]
    ELSE IF ~IsZero(self.probability)
    THEN [result |-> WLt(FinalHash(self, fp_id, self.counter, t, ent), self.probability),
          counter |-> self.counter + 1, ent |-> IsZero(self.seed)]
    ELSE [result |-> FALSE, counter |-> self.counter, ent |-> FALSE]

\* should_trigger falling through to true
should_trigger_DefaultTrue(self, fp_id, flag, t, ent) ==
    IF self.predicate # "none" /\ ~Predicate(self.predicate, flag)
    THEN [result |-> FALSE, counter |-> self.counter, ent |-> FALSE]
    ELSE IF self.enabled_points # << >> /\ ~Contains(self.enabled_points, fp_id)
    THEN [result |-> FALSE, counter |-> self.counter, ent |-> FALSE]
    ELSE IF self.trigger_every > 0
    THEN [result |-> (self.counter % self.trigger_every) = 0,
          counter |-> self.counter + 1, ent |-> FALSE]
    ELSE IF ~IsZero(self.probability)
    THEN [result |-> WLt(FinalHash(self, fp_id, self.counter, t, ent), self.probability),
          counter |-> self.counter + 1, ent |-> IsZero(self.seed)]
    ELSE [result |-> TRUE, counter |-> self.counter, ent |-> FALSE]

\* should_trigger with the fetch_add moved in front of the predicate and the allow-list
should_trigger_CountFirst(self, fp_id, flag, t, ent) ==
    IF self.predicate # "none" /\ ~Predicate(self.predicate, flag)
    THEN [result |-> FALSE, counter |-> self.counter + 1, ent |-> FALSE]
    ELSE IF self.enabled_points # << >> /\ ~Contains(self.enabled_points, fp_id)
    THEN [result |-> FALSE, counter |-> self.counter + 1, ent |-> FALSE]
    ELSE IF self.trigger_every > 0
    THEN [result |-> (self.counter % self.trigger_every) = 0,
          counter |-> self.counter + 1, ent |-> FALSE]
    ELSE IF ~IsZero(self.probability)
    THEN [result |-> WLt(FinalHash(self, fp_id, self.counter, t, ent), self.probability),
          counter |-> self.counter + 1, ent |-> IsZero(self.seed)]
    ELSE [result |-> FALSE, counter |-> self.counter, ent |-> FALSE]

\* should_trigger keeping the periodic counter modulo trigger_every
should_trigger_Wrapping(self, fp_id, flag, t, ent) ==
    IF self.predicate # "none" /\ ~Predicate(self.predicate, flag)
    THEN [result |-> FALSE, counter |-> self.counter, ent |-> FALSE]
    ELSE IF self.enabled_points # << >> /\ ~Contains(self.enabled_points, fp_id)
    THEN [result |-> FALSE, counter |-> self.counter, ent |-> FALSE]
    ELSE IF self.trigger_every > 0
    THEN [result |-> (self.counter % self.trigger_every) = 0,
          counter |-> (self.counter + 1) % self.trigger_every, ent |-> FALSE]
    ELSE IF ~IsZero(self.probability)
    THEN [result |-> WLt(FinalHash(self, fp_id, self.counter, t, ent), self.probability),
          counter |-> self.counter + 1, ent |-> IsZero(self.seed)]
    ELSE [result |-> FALSE, counter |-> self.counter, ent |-> FALSE]

\* should_trigger with the probabilistic branch tried before the periodic one
should_trigger_ProbabilityFirst(self, fp_id, flag, t, ent) ==
    IF self.predicate # "none" /\ ~Predicate(self.predicate, flag)
    THEN [result |-> FALSE, counter |-> self.counter, ent |-> FALSE]
    ELSE IF self.enabled_points # << >> /\ ~Contains(self.enabled_points, fp_id)
    THEN [result |-> FALSE, counter |-> self.counter, ent |-> FALSE]
    ELSE IF ~IsZero(self.probability)
    THEN [result |-> WLt(FinalHash(self, fp_id, self.counter, t, ent), self.probability),
          counter |-> self.counter + 1, ent |-> IsZero(self.seed)]
    ELSE IF self.trigger_every > 0
    THEN [result |-> (self.counter % self.trigger_every) = 0,
          counter |-> self.counter + 1, ent |-> FALSE]
    ELSE [result |-> FALSE, counter |-> self.counter, ent |-> FALSE]

\* should_trigger with fetch_add(2) in the periodic and probabilistic branches
should_trigger_AddTwo(self, fp_id, flag, t, ent) ==
    IF self.predicate # "none" /\ ~Predicate(self.predicate, flag)
    THEN [result |-> FALSE, counter |-> self.counter, ent |-> FALSE]
    ELSE IF self.enabled_points # << >> /\ ~Contains(self.enabled_points, fp_id)
    THEN [result |-> FALSE, counter |-> self.counter, ent |-> FALSE]
    ELSE IF self.trigger_every > 0
    THEN [result |-> (self.counter % self.trigger_every) = 0,
          counter |-> self.counter + 2, ent |-> FALSE]
    ELSE IF ~IsZero(self.probability)
    THEN [result |-> WLt(FinalHash(self, fp_id, self.counter, t, ent), self.probability),
          counter |-> self.counter + 2, ent |-> IsZero(self.seed)]
    ELSE [result |-> FALSE, counter |-> self.counter, ent |-> FALSE]

\* should_trigger with trigger_every = 0 read as "every call"
should_trigger_ZeroEveryCall(self, fp_id, flag, t, ent) ==
    IF self.predicate # "none" /\ ~Predicate(self.predicate, flag)
    THEN [result |-> FALSE, counter |-> self.counter, ent |-> FALSE]
    ELSE IF self.enabled_points # << >> /\ ~Contains(self.enabled_points, fp_id)
    THEN [result |-> FALSE, counter |-> self.counter, ent |-> FALSE]
    ELSE IF self.trigger_every >= 0
    THEN [result |-> IF self.trigger_every = 0 THEN TRUE
                     ELSE (self.counter % self.trigger_every) = 0,
          counter |-> self.counter + 1, ent |-> FALSE]
    ELSE [result |-> FALSE, counter |-> self.counter, ent |-> FALSE]

\* should_trigger with the periodic ordinal shifted by the call site
should_trigger_SiteOffset(self, fp_id, flag, t, ent) ==
    IF self.predicate # "none" /\ ~Predicate(self.predicate, flag)
    THEN [result |-> FALSE, counter |-> self.counter, ent |-> FALSE]
    ELSE IF self.enabled_points # << >> /\ ~Contains(self.enabled_points, fp_id)
    THEN [result |-> FALSE, counter |-> self.counter, ent |-> FALSE]
    ELSE IF self.trigger_every > 0
    THEN [result |-> ((self.counter + (IF fp_id = IdFetchData THEN 1 ELSE 0))
                         % self.trigger_every) = 0,
          counter |-> self.counter + 1, ent |-> FALSE]
    ELSE IF ~IsZero(self.probability)
    THEN [result |-> WLt(FinalHash(self, fp_id, self.counter, t, ent), self.probability),
          counter |-> self.counter + 1, ent |-> IsZero(self.seed)]
    ELSE [result |-> FALSE, counter |-> self.counter, ent |-> FALSE]

\* FailureConfig::should_trigger: the verdict and the counter afterwards
should_trigger(self, fp_id, flag, t, ent) ==
    IF self.predicate # "none" /\ ~Predicate(self.predicate, flag)
    THEN [result |-> FALSE, counter |-> self.counter, ent |-> FALSE]
    ELSE IF self.enabled_points # << >> /\ ~Contains(self.enabled_points, fp_id)
    THEN [result |-> FALSE, counter |-> self.counter, ent |-> FALSE]
    ELSE IF self.trigger_every > 0
    THEN [result |-> (self.counter % self.trigger_every) = 0,
          counter |-> self.counter + 1, ent |-> FALSE]
    ELSE IF ~IsZero(self.probability)
    THEN [result |-> WLt(FinalHash(self, fp_id, self.counter, t, ent), self.probability),
          counter |-> self.counter + 1, ent |-> IsZero(self.seed)]
    ELSE [result |-> FALSE, counter |-> self.counter, ent |-> FALSE]

\* the gates with the allow-list looked at first: a rejected call site returns
\* before the predicate is called
Gates_AllowListFirst(self, fp_id, flag) ==
    IF self.enabled_points # << >> /\ ~Contains(self.enabled_points, fp_id)
    THEN << "allow_list" >>
    ELSE IF self.predicate # "none" THEN << "allow_list", "predicate" >>
    ELSE << "allow_list" >>

\* what should_trigger evaluates before it reaches the counter, in order: the
\* predicate closure if there is one, then, unless the predicate returned
\* false, the allow-list test
Gates(self, fp_id, flag) ==
    IF self.predicate # "none"
    THEN IF ~Predicate(self.predicate, flag) THEN << "predicate" >>
         ELSE << "predicate", "allow_list" >>
    ELSE << "allow_list" >>

\* check_and_trigger: the verdict and the configuration afterwards
check_and_trigger(config, fp_id, flag, t, ent) ==
    LET st == should_trigger(config, fp_id, flag, t, ent)
    IN  [ result |-> st.result,
          ent    |-> st.ent,
          config |-> [config EXCEPT
                        !.counter = st.counter,
                        !.failures_triggered = IF st.result THEN @ + 1 ELSE @] ]

(* ----------------------------------------------------------------------- *)
(* State                                                                   *)
(* ----------------------------------------------------------------------- *)

VARIABLES
    CONFIG_PTR,         \* the global slot: an address or 0
    THREAD_CONFIG_PTR,  \* each thread's slot: an address or 0
    heap,               \* the boxed FailureConfig at each address
    status,             \* "unallocated", "live" or "released" per address
    guards,             \* the FailureConfigGuard values alive
    chaos_flag,         \* the flag the "flag" predicate loads
    owner,              \* per address: the slot it was installed in (0 global, t thread t, -1 none yet)
    hist,               \* per address: call-site id and verdict of each evaluation routed to it
    pc,                 \* per thread: the call it is inside and how far that call has got
    ret                 \* the last call: operation, thread, arguments, return value

vars == << CONFIG_PTR, THREAD_CONFIG_PTR, heap, status, owner, guards, chaos_flag, hist, pc, ret >>

NoGuard == [alive |-> FALSE, was_global |-> FALSE, created_on |-> 0, config |-> 0]

\* FailureStats
NoStats == [total_checks |-> 0, total_failures |-> 0]

\* fired: the hooks and counter updates the call went through, in order; seen: the
\* counters as the on_failure hook found them; snap: the FailureStats returned;
\* stale: the call used its configuration after the box was released; ordinal: the
\* value its fetch_add on the check counter returned, -1 if it did none
NoCall ==
    [ op |-> "none", thread |-> 0, fp |-> Zero32, ent |-> NoEntropy,
      result |-> FALSE, config |-> 0, guard |-> 0, was_global |-> FALSE, how |-> "none",
      fired |-> << >>, seen |-> NoStats, snap |-> NoStats, stale |-> FALSE, ordinal |-> -1,
      env |-> [var |-> "unset", value |-> << >>] ]

\* a thread that is inside no call
Idle == [op |-> "idle", stage |-> "none", ptr |-> 0, call |-> NoCall]

Call(op, t) == [NoCall EXCEPT !.op = op, !.thread = t]

\* Box::new: the next allocation
NextAddr == CHOOSE a \in Addrs : status[a] = "unallocated" /\ \A b \in 1..(a - 1) : status[b] # "unallocated"
CanBox == \E a \in Addrs : status[a] = "unallocated"

\* Swapped with the counters of the replaced configuration carried over to the new box
Swapped_KeepCounters(a, config, old_ptr, slot) ==
    /\ owner' = [x \in Addrs |-> IF x = a THEN slot ELSE owner[x]]
    /\ heap' = [x \in Addrs |->
                  IF x = a
                  THEN (IF old_ptr = 0 THEN config
                        ELSE [config EXCEPT !.counter = heap[old_ptr].counter,
                                            !.failures_triggered = heap[old_ptr].failures_triggered])
                  ELSE IF x = old_ptr THEN new ELSE heap[x]]
    /\ status' = [x \in Addrs |-> IF x = a THEN "live" ELSE IF x = old_ptr THEN "released" ELSE status[x]]
    /\ hist' = [x \in Addrs |-> IF x = old_ptr THEN << >> ELSE hist[x]]

\* drop(Box::from_raw(old_ptr)) when old_ptr != 0, after `a` was boxed holding `config`
Swapped(a, config, old_ptr, slot) ==
    /\ owner' = [x \in Addrs |-> IF x = a THEN slot ELSE owner[x]]
    /\ heap' = [x \in Addrs |-> IF x = a THEN config ELSE IF x = old_ptr THEN new ELSE heap[x]]
    /\ status' = [x \in Addrs |-> IF x = a THEN "live" ELSE IF x = old_ptr THEN "released" ELSE status[x]]
    /\ hist' = [x \in Addrs |-> IF x = old_ptr THEN << >> ELSE hist[x]]

(* ----------------------------------------------------------------------- *)
(* State manager                                                           *)
(* ----------------------------------------------------------------------- *)

\* CONFIG_PTR.swap(Box::into_raw(Box::new(config))) and the release of the old box
SwapGlobal(a, config) ==
    /\ CONFIG_PTR' = a
    /\ Swapped(a, config, CONFIG_PTR, 0)
    /\ UNCHANGED THREAD_CONFIG_PTR

\* SwapThread on a cell that is one static shared by all threads
SwapThread_Shared(t, a, config) ==
    /\ THREAD_CONFIG_PTR' = [u \in Threads |-> a]
    /\ Swapped(a, config, THREAD_CONFIG_PTR[t], t)
    /\ UNCHANGED CONFIG_PTR

\* cell.replace(..) on the calling thread's THREAD_CONFIG_PTR and the release of the old box
SwapThread(t, a, config) ==
    /\ THREAD_CONFIG_PTR' = [THREAD_CONFIG_PTR EXCEPT ![t] = a]
    /\ Swapped(a, config, THREAD_CONFIG_PTR[t], t)
    /\ UNCHANGED CONFIG_PTR

configure_failures(config) ==
    /\ CanBox
    /\ SwapGlobal(NextAddr, config)
    /\ ret' = [Call("configure_failures", 0) EXCEPT !.config = NextAddr]
    /\ UNCHANGED << guards, chaos_flag >>

clear_failure_config ==
    /\ SwapGlobal(0, new)
    /\ ret' = Call("clear_failure_config", 0)
    /\ UNCHANGED << guards, chaos_flag >>

configure_thread_failures(t, config) ==
    /\ CanBox
    /\ SwapThread(t, NextAddr, config)
    /\ ret' = [Call("configure_thread_failures", t) EXCEPT !.config = NextAddr]
    /\ UNCHANGED << guards, chaos_flag >>

\* clear_thread_failure_config that goes on to the global slot when the thread's own
\* slot is empty
clear_thread_failure_config_FallThrough(t) ==
    /\ IF THREAD_CONFIG_PTR[t] # 0 THEN SwapThread(t, 0, new) ELSE SwapGlobal(0, new)
    /\ ret' = Call("clear_thread_failure_config", t)
    /\ UNCHANGED << guards, chaos_flag >>

clear_thread_failure_config(t) ==
    /\ SwapThread(t, 0, new)
    /\ ret' = Call("clear_thread_failure_config", t)
    /\ UNCHANGED << guards, chaos_flag >>

FreeGuard == CHOOSE g \in Guards : ~guards[g].alive /\ \A h \in 1..(g - 1) : guards[h].alive
CanGuard == \E g \in Guards : ~guards[g].alive

\* with_config: configure_failures, then FailureConfigGuard { was_global: true }
with_config(config) ==
    /\ CanBox /\ CanGuard
    /\ SwapGlobal(NextAddr, config)
    /\ guards' = [guards EXCEPT ![FreeGuard] = [alive |-> TRUE, was_global |-> TRUE, created_on |-> 0, config |-> NextAddr]]
    /\ ret' = [Call("with_config", 0) EXCEPT !.config = NextAddr, !.guard = FreeGuard, !.was_global = TRUE]
    /\ UNCHANGED chaos_flag

\* with_thread_config: configure_thread_failures, then FailureConfigGuard { was_global: false }
with_thread_config(t, config) ==
    /\ CanBox /\ CanGuard
    /\ SwapThread(t, NextAddr, config)
    /\ guards' = [guards EXCEPT ![FreeGuard] = [alive |-> TRUE, was_global |-> FALSE, created_on |-> t, config |-> NextAddr]]
    /\ ret' = [Call("with_thread_config", t) EXCEPT !.config = NextAddr, !.guard = FreeGuard]
    /\ UNCHANGED chaos_flag

\* drop_guard with an empty Drop body: the guard goes, the slots stay
drop_guard_Forget(g, t, how) ==
    /\ guards[g].alive
    /\ guards' = [guards EXCEPT ![g] = NoGuard]
    /\ ret' = [Call("drop", t) EXCEPT !.guard = g, !.was_global = guards[g].was_global, !.how = how]
    /\ UNCHANGED << CONFIG_PTR, THREAD_CONFIG_PTR, heap, status, owner, hist, chaos_flag >>

\* a Drop that clears the slot only while it still holds the guard's own configuration
drop_guard_OwnOnly(g, t, how) ==
    /\ guards[g].alive
    /\ IF guards[g].was_global
       THEN (IF CONFIG_PTR = guards[g].config THEN SwapGlobal(0, new)
             ELSE UNCHANGED << CONFIG_PTR, THREAD_CONFIG_PTR, heap, status, owner, hist >>)
       ELSE (IF THREAD_CONFIG_PTR[t] = guards[g].config THEN SwapThread(t, 0, new)
             ELSE UNCHANGED << CONFIG_PTR, THREAD_CONFIG_PTR, heap, status, owner, hist >>)
    /\ guards' = [guards EXCEPT ![g] = NoGuard]
    /\ ret' = [Call("drop", t) EXCEPT !.guard = g, !.was_global = guards[g].was_global, !.how = how]
    /\ UNCHANGED chaos_flag

\* Drop for FailureConfigGuard, run by thread t: at the end of the owning scope or
\* while a panic unwinds it.  The guard holds a bool only, so it can have been moved to
\* any thread before that; created_on (0 for a global guard) and config (the address
\* its constructor installed) are kept for the record only.
drop_guard(g, t, how) ==
    /\ guards[g].alive
    /\ IF guards[g].was_global THEN SwapGlobal(0, new) ELSE SwapThread(t, 0, new)
    /\ guards' = [guards EXCEPT ![g] = NoGuard]
    /\ ret' = [Call("drop", t) EXCEPT !.guard = g, !.was_global = guards[g].was_global, !.how = how]
    /\ UNCHANGED chaos_flag

\* Resolve with the two loads in the other order: the global slot first
Resolve_GlobalFirst(t) == IF CONFIG_PTR # 0 THEN CONFIG_PTR ELSE THREAD_CONFIG_PTR[t]

\* the address should_simulate_failure evaluates on thread t, 0 if none
Resolve(t) == IF THREAD_CONFIG_PTR[t] # 0 THEN THREAD_CONFIG_PTR[t] ELSE CONFIG_PTR

\* what one check_and_trigger call goes through, in order, given its outcome r
Calls(config, fp, flag, r) ==
    (IF config.on_check # "none" THEN << "on_check" >> ELSE << >>)
    \o << "should_trigger" >> \o Gates(config, fp, flag)
    \o (IF r.config.counter # config.counter THEN << "counter" >> ELSE << >>)
    \o (IF r.result
        THEN << "failures_triggered" >>
             \o (IF config.on_failure # "none" THEN << "on_failure" >> ELSE << >>)
        ELSE << >>)

should_simulate_failure(t, fp, ent) ==
    LET ptr == Resolve(t)
    IN  /\ IF ptr = 0
           THEN /\ ret' = [Call("should_simulate_failure", t) EXCEPT !.fp = fp]
                /\ UNCHANGED << heap, hist >>
           ELSE LET r == check_and_trigger(heap[ptr], fp, chaos_flag, t, ent)
                IN  /\ Len(hist[ptr]) < MaxCalls
                    /\ heap' = [heap EXCEPT ![ptr] = r.config]
                    /\ hist' = [hist EXCEPT ![ptr] = Append(@, [id |-> fp, result |-> r.result,
                                                              fired |-> Calls(heap[ptr], fp, chaos_flag, r)])]
                    /\ ret' = [Call("should_simulate_failure", t) EXCEPT
                                 !.fp = fp, !.result = r.result, !.config = ptr,
                                 !.ent = IF r.ent THEN ent ELSE NoEntropy,
                                 !.fired = Calls(heap[ptr], fp, chaos_flag, r),
                                 !.ordinal = IF r.config.counter # heap[ptr].counter
                                             THEN heap[ptr].counter ELSE -1]
        /\ UNCHANGED << CONFIG_PTR, THREAD_CONFIG_PTR, status, owner, guards, chaos_flag >>

\* chaos_enabled.store(b): the state the "flag" predicate reads
store_flag(b) ==
    /\ chaos_flag # b
    /\ chaos_flag' = b
    /\ ret' = Call("store_flag", 0)
    /\ UNCHANGED << CONFIG_PTR, THREAD_CONFIG_PTR, heap, status, owner, guards, hist >>

(* ----------------------------------------------------------------------- *)
(* Interleaved execution: the same calls, one shared-memory access a step  *)
(* ----------------------------------------------------------------------- *)

\* check_and_trigger with the on_check hook called after should_trigger
StageAfter_CheckHookLate(stage, should_fail) ==
    CASE stage = "load"           -> "should_trigger"
      [] stage = "should_trigger" -> "on_check"
      [] stage = "on_check"       -> IF should_fail THEN "count_failure" ELSE "return"
      [] stage = "count_failure"  -> "on_failure"
      [] stage = "on_failure"     -> "return"

\* check_and_trigger with the on_failure hook called before the fetch_add
StageAfter_FailureHookFirst(stage, should_fail) ==
    CASE stage = "load"           -> "on_check"
      [] stage = "on_check"       -> "should_trigger"
      [] stage = "should_trigger" -> IF should_fail THEN "on_failure" ELSE "return"
      [] stage = "on_failure"     -> "count_failure"
      [] stage = "count_failure"  -> "return"

\* the statement order of should_simulate_failure and check_and_trigger
StageAfter(stage, should_fail) ==
    CASE stage = "load"           -> "on_check"
      [] stage = "on_check"       -> "should_trigger"
      [] stage = "should_trigger" -> IF should_fail THEN "count_failure" ELSE "return"
      [] stage = "count_failure"  -> "on_failure"
      [] stage = "on_failure"     -> "return"

\* config.failures_triggered.fetch_add(2)
CountFailure_Twice(config) == [config EXCEPT !.failures_triggered = @ + 2]

\* config.failures_triggered.fetch_add(1) left out
CountFailure_Skip(config) == config

\* config.failures_triggered.fetch_add(1)
CountFailure(config) == [config EXCEPT !.failures_triggered = @ + 1]

\* FailureConfig::stats, the two loads taken together
stats(config) == [total_checks |-> config.counter, total_failures |-> config.failures_triggered]

\* the old box kept alive: no drop
DropBox_Leak(a) == status

\* drop(Box::from_raw(a))
DropBox(a) == [status EXCEPT ![a] = IF @ = "live" THEN "released" ELSE "released_twice"]

\* evaluations of the configuration at a that have loaded it and not returned
InFlight(a) == { t \in Threads : pc[t].op = "should_simulate_failure" /\ pc[t].ptr = a }

\* thread t goes on to the next statement of its evaluation, or returns; an access
\* through a released box can also fault, which ends the call with how = "crash"
Advance(t, call) ==
    LET next == StageAfter(pc[t].stage, call.result)
    IN  \/ IF next = "return"
           THEN /\ pc' = [pc EXCEPT ![t] = Idle]
                /\ ret' = call
                /\ hist' = IF call.stale THEN hist
                           ELSE [hist EXCEPT ![call.config] =
                                    Append(@, [id |-> call.fp, result |-> call.result,
                                               fired |-> call.fired])]
           ELSE /\ pc' = [pc EXCEPT ![t] = [@ EXCEPT !.stage = next, !.call = call]]
                /\ UNCHANGED << ret, hist >>
        \/ /\ call.stale
           /\ pc' = [pc EXCEPT ![t] = Idle]
           /\ ret' = [call EXCEPT !.how = "crash"]
           /\ UNCHANGED hist

\* should_simulate_failure up to the load of the slot
eval_load(t, fp) ==
    LET ptr == Resolve(t)
    IN  /\ pc[t] = Idle
        /\ IF ptr = 0
           THEN /\ ret' = [Call("should_simulate_failure", t) EXCEPT !.fp = fp]
                /\ UNCHANGED pc
           ELSE /\ Len(hist[ptr]) + Cardinality(InFlight(ptr)) < MaxManagerCalls
                /\ pc' = [pc EXCEPT ![t] =
                            [ op |-> "should_simulate_failure", stage |-> StageAfter("load", FALSE),
                              ptr |-> ptr,
                              call |-> [Call("should_simulate_failure", t) EXCEPT
                                          !.fp = fp, !.config = ptr] ]]
                /\ UNCHANGED ret
        /\ UNCHANGED << CONFIG_PTR, THREAD_CONFIG_PTR, heap, status, owner, guards, chaos_flag, hist >>

\* if let Some(on_check) = &config.on_check { on_check(fp) }
\* through a released box the read of the field can give either answer
eval_on_check(t) ==
    LET ptr  == pc[t].ptr
        live == status[ptr] = "live"
    IN  /\ pc[t].op = "should_simulate_failure" /\ pc[t].stage = "on_check"
        /\ \E fires \in (IF live THEN { heap[ptr].on_check # "none" } ELSE BOOLEAN) :
              Advance(t, [pc[t].call EXCEPT
                            !.fired = IF fires THEN Append(@, "on_check") ELSE @,
                            !.stale = @ \/ ~live])
        /\ UNCHANGED << CONFIG_PTR, THREAD_CONFIG_PTR, heap, status, owner, guards, chaos_flag >>

\* let should_fail = config.should_trigger(fp.id)
\* through a released box the verdict is arbitrary and the write is lost
eval_should_trigger(t, ent) ==
    LET ptr  == pc[t].ptr
        live == status[ptr] = "live"
        st   == should_trigger(heap[ptr], pc[t].call.fp, chaos_flag, t, ent)
    IN  /\ pc[t].op = "should_simulate_failure" /\ pc[t].stage = "should_trigger"
        /\ IF live
           THEN /\ heap' = [heap EXCEPT ![ptr].counter = st.counter]
                /\ Advance(t, [pc[t].call EXCEPT
                                 !.result = st.result,
                                 !.ent = IF st.ent THEN ent ELSE NoEntropy,
                                 !.ordinal = IF st.counter # heap[ptr].counter
                                             THEN heap[ptr].counter ELSE -1,
                                 !.fired = @ \o << "should_trigger" >> \o
                                           Gates(heap[ptr], pc[t].call.fp, chaos_flag) \o
                                           (IF st.counter # heap[ptr].counter
                                            THEN << "counter" >> ELSE << >>)])
           ELSE /\ UNCHANGED heap
                /\ \E r \in BOOLEAN :
                      Advance(t, [pc[t].call EXCEPT
                                    !.result = r, !.stale = TRUE,
                                    !.fired = Append(@, "should_trigger")])
        /\ UNCHANGED << CONFIG_PTR, THREAD_CONFIG_PTR, status, owner, guards, chaos_flag >>

\* config.failures_triggered.fetch_add(1, Ordering::Relaxed)
eval_count_failure(t) ==
    LET ptr  == pc[t].ptr
        live == status[ptr] = "live"
    IN  /\ pc[t].op = "should_simulate_failure" /\ pc[t].stage = "count_failure"
        /\ heap' = IF live THEN [heap EXCEPT ![ptr] = CountFailure(@)] ELSE heap
        /\ Advance(t, [pc[t].call EXCEPT
                         !.fired = Append(@, "failures_triggered"), !.stale = @ \/ ~live])
        /\ UNCHANGED << CONFIG_PTR, THREAD_CONFIG_PTR, status, owner, guards, chaos_flag >>

\* if let Some(on_failure) = &config.on_failure { on_failure(fp) }
\* the "log" hook reads the statistics of the configuration when it is called
eval_on_failure(t) ==
    LET ptr  == pc[t].ptr
        live == status[ptr] = "live"
    IN  /\ pc[t].op = "should_simulate_failure" /\ pc[t].stage = "on_failure"
        /\ \E fires \in (IF live THEN { heap[ptr].on_failure # "none" } ELSE BOOLEAN) :
              Advance(t, [pc[t].call EXCEPT
                            !.fired = IF fires THEN Append(@, "on_failure") ELSE @,
                            !.seen = IF fires /\ live THEN stats(heap[ptr]) ELSE @,
                            !.stale = @ \/ ~live])
        /\ UNCHANGED << CONFIG_PTR, THREAD_CONFIG_PTR, heap, status, owner, guards, chaos_flag >>

\* get_failure_stats reading only the global slot
ResolveStats_GlobalOnly(t) == CONFIG_PTR

\* the address get_failure_stats reads on thread t, 0 if none: the function
\* repeats the two loads of should_simulate_failure
ResolveStats(t) ==
    LET thread_ptr == THREAD_CONFIG_PTR[t]
    IN  IF thread_ptr # 0 THEN thread_ptr ELSE CONFIG_PTR

\* get_failure_stats up to the load of the slot; None when both slots are 0
stats_load(t) ==
    LET ptr == ResolveStats(t)
    IN  /\ pc[t] = Idle
        /\ IF ptr = 0
           THEN /\ ret' = Call("get_failure_stats", t)
                /\ UNCHANGED pc
           ELSE /\ pc' = [pc EXCEPT ![t] =
                            [ op |-> "get_failure_stats", stage |-> "total_checks", ptr |-> ptr,
                              call |-> [Call("get_failure_stats", t) EXCEPT
                                          !.config = ptr, !.result = TRUE] ]]
                /\ UNCHANGED ret
        /\ UNCHANGED << CONFIG_PTR, THREAD_CONFIG_PTR, heap, status, owner, guards, chaos_flag, hist >>

\* total_checks: self.counter.load(Ordering::Relaxed)
stats_total_checks(t) ==
    LET ptr  == pc[t].ptr
        live == status[ptr] = "live"
    IN  /\ pc[t].op = "get_failure_stats" /\ pc[t].stage = "total_checks"
        /\ \E v \in (IF live THEN { heap[ptr].counter } ELSE 0..MaxCalls) :
              pc' = [pc EXCEPT ![t] = [@ EXCEPT
                        !.stage = "total_failures",
                        !.call = [@ EXCEPT !.snap.total_checks = v, !.stale = @ \/ ~live]]]
        /\ UNCHANGED << CONFIG_PTR, THREAD_CONFIG_PTR, heap, status, owner, guards, chaos_flag, hist, ret >>

\* total_failures: self.failures_triggered.load(Ordering::Relaxed), and the return
stats_total_failures(t) ==
    LET ptr  == pc[t].ptr
        live == status[ptr] = "live"
    IN  /\ pc[t].op = "get_failure_stats" /\ pc[t].stage = "total_failures"
        /\ \E v \in (IF live THEN { heap[ptr].failures_triggered } ELSE 0..MaxCalls),
              how \in (IF live THEN { "none" } ELSE { "none", "crash" }) :
              ret' = [pc[t].call EXCEPT
                        !.snap.total_failures = v, !.stale = @ \/ ~live, !.how = how]
        /\ pc' = [pc EXCEPT ![t] = Idle]
        /\ UNCHANGED << CONFIG_PTR, THREAD_CONFIG_PTR, heap, status, owner, guards, chaos_flag, hist >>

\* CONFIG_PTR.swap(a): a is a fresh box holding config, or 0 for clear_failure_config.
\* The caller returns at once if the slot was empty, else it still has the old box to drop.
swap_global(t, op, a, config) ==
    LET old_ptr == CONFIG_PTR
        call    == [Call(op, t) EXCEPT !.config = a]
    IN  /\ pc[t] = Idle
        /\ CONFIG_PTR' = a
        /\ heap' = [x \in Addrs |-> IF x = a THEN config ELSE heap[x]]
        /\ status' = [x \in Addrs |-> IF x = a THEN "live" ELSE status[x]]
        /\ owner' = [x \in Addrs |-> IF x = a THEN 0 ELSE owner[x]]
        /\ IF old_ptr = 0
           THEN ret' = call /\ UNCHANGED pc
           ELSE /\ pc' = [pc EXCEPT ![t] = [op |-> op, stage |-> "drop", ptr |-> old_ptr, call |-> call]]
                /\ UNCHANGED ret
        /\ UNCHANGED << THREAD_CONFIG_PTR, guards, chaos_flag, hist >>

\* if old_ptr != 0 { drop(Box::from_raw(old_ptr)) }, and the return
drop_old(t) ==
    /\ pc[t].stage = "drop"
    /\ status' = DropBox(pc[t].ptr)
    /\ heap' = [heap EXCEPT ![pc[t].ptr] = new]
    /\ hist' = [hist EXCEPT ![pc[t].ptr] = << >>]
    /\ ret' = pc[t].call
    /\ pc' = [pc EXCEPT ![t] = Idle]
    /\ UNCHANGED << CONFIG_PTR, THREAD_CONFIG_PTR, owner, guards, chaos_flag >>

(* ----------------------------------------------------------------------- *)
(* Specifications                                                          *)
(* ----------------------------------------------------------------------- *)

\* the configurations the program installs: a periodic one and enable_all
ManagerConfigs == { circuit_breaker(2), enable_all }

Empty ==
    /\ heap = [a \in Addrs |-> new]
    /\ status = [a \in Addrs |-> "unallocated"]
    /\ owner = [a \in Addrs |-> -1]
    /\ hist = [a \in Addrs |-> << >>]
    /\ guards = [g \in Guards |-> NoGuard]
    /\ chaos_flag = FALSE
    /\ pc = [t \in Threads |-> Idle]

\* the process before any call: both kinds of slot are 0
Init ==
    /\ CONFIG_PTR = 0
    /\ THREAD_CONFIG_PTR = [t \in Threads |-> 0]
    /\ Empty
    /\ ret = NoCall

Install ==
    /\ \E t \in Threads, config \in ManagerConfigs :
           \/ configure_failures(config)
           \/ configure_thread_failures(t, config)
           \/ with_config(config)
           \/ with_thread_config(t, config)
    /\ UNCHANGED pc

Clear ==
    /\ \/ clear_failure_config
       \/ \E t \in Threads : clear_thread_failure_config(t)
    /\ UNCHANGED pc

Drop ==
    /\ \E g \in Guards, t \in Threads, how \in { "scope_exit", "unwind" } : drop_guard(g, t, how)
    /\ UNCHANGED pc

\* the manager's callers: one call site, a few calls per configuration
Check ==
    \E t \in Threads, ent \in EntropySamples :
        /\ Resolve(t) # 0 => Len(hist[Resolve(t)]) < MaxManagerCalls
        /\ should_simulate_failure(t, IdReadConfig, ent)
        /\ UNCHANGED pc

Next == Install \/ Clear \/ Drop \/ Check

Spec == Init /\ [][Next]_vars

\* The decision engine on one configuration: a builder chain over the sampled values,
\* installed globally, then evaluated from any thread at any call site.
Built(prob, every, s, pred) ==
    when(with_seed(trigger_every(with_probability(new, prob), every), s), pred)

BuiltConfigs ==
    { Built(prob, every, s, pred) :
        prob \in ProbSamples, every \in EverySamples, s \in SeedSamples, pred \in PredSamples }
    \cup { enable_point(Built(prob, every, s, pred), IdReadConfig) :
        prob \in ProbSamples, every \in EverySamples, s \in SeedSamples, pred \in PredSamples }
    \cup { enable_all, chaos_monkey }
    \cup { on_failure(on_check(config, "log"), "log") :
               config \in { Built(<< 0, 1 >>, 0, Zero64, "flag"),
                            Built(<< 1, 1 >>, 2, Zero64, "flag"),
                            enable_point(Built(<< 1, 1 >>, 0, Zero64, "flag"), IdReadConfig) } }

InitEngine ==
    \E config \in BuiltConfigs :
        /\ CONFIG_PTR = 1
        /\ THREAD_CONFIG_PTR = [t \in Threads |-> 0]
        /\ heap = [a \in Addrs |-> IF a = 1 THEN config ELSE new]
        /\ status = [a \in Addrs |-> IF a = 1 THEN "live" ELSE "unallocated"]
        /\ owner = [a \in Addrs |-> IF a = 1 THEN 0 ELSE -1]
        /\ hist = [a \in Addrs |-> << >>]
        /\ guards = [g \in Guards |-> NoGuard]
        /\ chaos_flag = FALSE
        /\ pc = [t \in Threads |-> Idle]
        /\ ret = [Call("configure_failures", 0) EXCEPT !.config = 1]

CheckAny ==
    /\ \E t \in Threads, fp \in Points, ent \in EntropySamples : should_simulate_failure(t, fp, ent)
    /\ UNCHANGED pc

Flag == (\E b \in BOOLEAN : store_flag(b)) /\ UNCHANGED pc

NextEngine == CheckAny \/ Flag

SpecEngine == InitEngine /\ [][NextEngine]_vars

\* Two runs of one program: thread 1 and thread 2 each installed the same seeded
\* probabilistic configuration in their own slot, and each makes its own calls.
RunConfigs ==
    { with_seed(with_probability(new, prob), s) : prob \in ProbSamples, s \in SeedSamples }

InitRuns ==
    \E config \in RunConfigs :
        /\ CONFIG_PTR = 0
        /\ THREAD_CONFIG_PTR = [t \in Threads |-> IF t <= 2 THEN t ELSE 0]
        /\ heap = [a \in Addrs |-> IF a <= 2 THEN config ELSE new]
        /\ status = [a \in Addrs |-> IF a <= 2 THEN "live" ELSE "unallocated"]
        /\ owner = [a \in Addrs |-> IF a <= 2 THEN a ELSE -1]
        /\ hist = [a \in Addrs |-> << >>]
        /\ guards = [g \in Guards |-> NoGuard]
        /\ chaos_flag = FALSE
        /\ pc = [t \in Threads |-> Idle]
        /\ ret = [Call("configure_thread_failures", 2) EXCEPT !.config = 2]

SpecRuns == InitRuns /\ [][CheckAny]_vars

\* Two threads sharing the global slot, each also with a slot of its own; every
\* call advances one access at a time.  The configurations carry hooks that log.
Logged(config) == on_failure(on_check(config, "log"), "log")

AlwaysFails == Logged(with_seed(enable_all, ToLeBytes(12345, 8)))

\* installed globally: always failing, periodic, and one whose allow-list leaves the
\* call site out
ConcConfigs ==
    { AlwaysFails,
      Logged(circuit_breaker(2)),
      Logged(enable_point(enable_all, IdFetchData)) }

\* installed by a thread for itself: always failing behind a predicate that is false
Gated == Logged(when(enable_all, "never"))

\* one call site, read_config, which the allow-list of one configuration leaves out
Evaluate == \E t \in Threads : eval_load(t, IdReadConfig)

OnCheck == \E t \in Threads : eval_on_check(t)

ShouldTrigger == \E t \in Threads, ent \in EntropySamples : eval_should_trigger(t, ent)

CountFailures == \E t \in Threads : eval_count_failure(t)

OnFailure == \E t \in Threads : eval_on_failure(t)

Stats == \E t \in Threads : stats_load(t) \/ stats_total_checks(t) \/ stats_total_failures(t)

SwapInstall ==
    \E t \in Threads, config \in ConcConfigs :
        CanBox /\ swap_global(t, "configure_failures", NextAddr, config)

SwapClear == \E t \in Threads : swap_global(t, "clear_failure_config", 0, new)

DropOld == \E t \in Threads : drop_old(t)

ThreadLocal ==
    /\ \E t \in Threads :
          /\ pc[t] = Idle
          /\ \/ configure_thread_failures(t, Gated)
             \/ clear_thread_failure_config(t)
    /\ UNCHANGED pc

NextConc ==
    \/ Evaluate \/ OnCheck \/ ShouldTrigger \/ CountFailures \/ OnFailure
    \/ Stats \/ SwapInstall \/ SwapClear \/ DropOld \/ ThreadLocal

SpecConc == Init /\ [][NextConc]_vars

\* Both kinds of slot occupied: a global configuration and one that thread 1
\* installed for itself; thread 2 has none of its own.  The configurations differ
\* in hooks, predicate, allow-list and mode.
FrameConfigs ==
    { Logged(when(with_seed(enable_all, ToLeBytes(12345, 8)), "flag")),
      Logged(circuit_breaker(2)),
      enable_point(with_seed(enable_all, ToLeBytes(12345, 8)), IdFetchData) }

InitFrame ==
    \E global, local \in FrameConfigs :
        /\ CONFIG_PTR = 1
        /\ THREAD_CONFIG_PTR = [t \in Threads |-> IF t = 1 THEN 2 ELSE 0]
        /\ heap = [a \in Addrs |-> IF a = 1 THEN global ELSE IF a = 2 THEN local ELSE new]
        /\ status = [a \in Addrs |-> IF a <= 2 THEN "live" ELSE "unallocated"]
        /\ owner = [a \in Addrs |-> IF a = 1 THEN 0 ELSE IF a = 2 THEN 1 ELSE -1]
        /\ hist = [a \in Addrs |-> << >>]
        /\ guards = [g \in Guards |-> NoGuard]
        /\ chaos_flag = FALSE
        /\ pc = [t \in Threads |-> Idle]
        /\ ret = [Call("configure_thread_failures", 1) EXCEPT !.config = 2]

\* either thread at either call site, a few calls per configuration
CheckFrame ==
    \E t \in Threads, fp \in Points, ent \in EntropySamples :
        /\ Len(hist[Resolve(t)]) < MaxManagerCalls
        /\ should_simulate_failure(t, fp, ent)
        /\ UNCHANGED pc

NextFrame == CheckFrame \/ Flag

SpecFrame == InitFrame /\ [][NextFrame]_vars

\* The life of a spawned thread: it installs and clears configurations of its own,
\* makes calls, and ends.  Thread 1 is the main thread and stays.
Spawned == Threads \ { 1 }

\* a thread that has returned from its closure
Exited == [op |-> "exited", stage |-> "none", ptr |-> 0, call |-> NoCall]

\* The end of thread t: its thread-local storage is torn down.  The cell is a
\* RefCell<usize>, which has no destructor, so the address in it is forgotten and
\* the box it names stays allocated.
thread_exit(t) ==
    /\ pc[t] = Idle
    /\ pc' = [pc EXCEPT ![t] = Exited]
    /\ THREAD_CONFIG_PTR' = [THREAD_CONFIG_PTR EXCEPT ![t] = 0]
    /\ ret' = Call("thread_exit", t)
    /\ UNCHANGED << CONFIG_PTR, heap, status, owner, guards, chaos_flag, hist >>

LifeInstall ==
    /\ \E t \in Threads, config \in ManagerConfigs :
           pc[t] = Idle /\ configure_thread_failures(t, config)
    /\ UNCHANGED pc

LifeClear ==
    /\ \E t \in Threads : pc[t] = Idle /\ clear_thread_failure_config(t)
    /\ UNCHANGED pc

LifeCheck ==
    \E t \in Threads, ent \in EntropySamples :
        /\ pc[t] = Idle
        /\ Resolve(t) # 0 /\ Len(hist[Resolve(t)]) < MaxManagerCalls
        /\ should_simulate_failure(t, IdReadConfig, ent)
        /\ UNCHANGED pc

LifeExit == \E t \in Spawned : thread_exit(t)

NextLife == LifeInstall \/ LifeClear \/ LifeCheck \/ LifeExit

\* every thread that can take a step is scheduled sooner or later
SpecLife == Init /\ [][NextLife]_vars /\ WF_vars(NextLife)

\* The #[fallible] attribute.  A function is its name, the attribute's arguments and
\* its declared return type (the last path segment and the number of generic
\* arguments).  read_config, optional_value and never_fail of the example program:
Functions ==
    { [ name |-> "read_config", attrs |-> [enabled |-> "unset", probability |-> "unset", trigger_every |-> "unset"],
        output |-> [ident |-> "Result", args |-> 2], id |-> IdReadConfig ],
      [ name |-> "optional_value", attrs |-> [enabled |-> "unset", probability |-> "unset", trigger_every |-> "unset"],
        output |-> [ident |-> "Option", args |-> 1],
        id |-> hash32(<< 111, 112, 116, 105, 111, 110, 97, 108, 95, 118, 97, 108, 117, 101 >>) ],
      [ name |-> "never_fail", attrs |-> [enabled |-> "false", probability |-> "unset", trigger_every |-> "unset"],
        output |-> [ident |-> "Result", args |-> 2],
        id |-> hash32(<< 110, 101, 118, 101, 114, 95, 102, 97, 105, 108 >>) ] }

\* extract_result_error_type(..).is_some(): the return type is written Result<_, _>
extract_result_error_type(output) == output.ident = "Result" /\ output.args = 2

\* The expansion the attribute produces: the function unchanged, or the body
\* preceded by the query of should_simulate_failure, or by a check against a
\* counter of the function's own when probability or trigger_every is given.
fallible(attrs, output) ==
    LET check_logic ==
            IF attrs.enabled # "unset"
            THEN (IF attrs.enabled = "false" THEN "unchanged" ELSE "query")
            ELSE IF attrs.probability # "unset" THEN "inline_probability"
            ELSE IF attrs.trigger_every # "unset" THEN "inline_trigger_every"
            ELSE "query"
    IN  IF check_logic = "unchanged" THEN "unchanged"
        ELSE IF extract_result_error_type(output) THEN check_logic
        ELSE "unchanged"

\* thread t calls fn, built with the fallible-sim feature
call_enter(t, fn) ==
    /\ pc[t] = Idle
    /\ fallible(fn.attrs, fn.output) \in { "unchanged", "query" }
    /\ pc' = [pc EXCEPT ![t] =
                 [ op |-> "fallible",
                   stage |-> IF fallible(fn.attrs, fn.output) = "query" THEN "check" ELSE "body",
                   ptr |-> 0,
                   call |-> [Call(fn.name, t) EXCEPT !.fp = fn.id] ]]
    /\ UNCHANGED << CONFIG_PTR, THREAD_CONFIG_PTR, heap, status, owner, guards, chaos_flag,
                    hist, ret >>

\* if should_simulate_failure(FailurePoint { id, .. }) { return Err(..) }
call_check(t, ent) ==
    /\ pc[t].op = "fallible" /\ pc[t].stage = "check"
    /\ Resolve(t) # 0 => Len(hist[Resolve(t)]) < MaxManagerCalls
    /\ should_simulate_failure(t, pc[t].call.fp, ent)
    /\ pc' = [pc EXCEPT ![t] = [@ EXCEPT
                 !.stage = IF ret'.result THEN "return_failure" ELSE "body",
                 !.call = [@ EXCEPT !.result = ret'.result, !.config = ret'.config,
                                    !.fired = << "should_simulate_failure" >>]]]

\* return Err(<E as FallibleError>::simulated_failure()), or the body's value
call_return(t) ==
    /\ pc[t].op = "fallible" /\ pc[t].stage \in { "return_failure", "body" }
    /\ ret' = [pc[t].call EXCEPT
                 !.how = IF pc[t].stage = "return_failure" THEN "Err(simulated_failure)"
                         ELSE "body"]
    /\ pc' = [pc EXCEPT ![t] = Idle]
    /\ UNCHANGED << CONFIG_PTR, THREAD_CONFIG_PTR, heap, status, owner, guards, chaos_flag, hist >>

\* installed globally: fail every call, or every second call
InitMacro ==
    \E config \in { trigger_every(new, 1), circuit_breaker(2) } :
        /\ CONFIG_PTR = 1
        /\ THREAD_CONFIG_PTR = [t \in Threads |-> 0]
        /\ heap = [a \in Addrs |-> IF a = 1 THEN config ELSE new]
        /\ status = [a \in Addrs |-> IF a = 1 THEN "live" ELSE "unallocated"]
        /\ owner = [a \in Addrs |-> IF a = 1 THEN 0 ELSE -1]
        /\ hist = [a \in Addrs |-> << >>]
        /\ guards = [g \in Guards |-> NoGuard]
        /\ chaos_flag = FALSE
        /\ pc = [t \in Threads |-> Idle]
        /\ ret = [Call("configure_failures", 0) EXCEPT !.config = 1]

NextMacro ==
    \/ \E t \in Threads, fn \in Functions : call_enter(t, fn)
    \/ \E t \in Threads, ent \in EntropySamples : call_check(t, ent)
    \/ \E t \in Threads : call_return(t)

SpecMacro == InitMacro /\ [][NextMacro]_vars

\* A configuration under construction, before configure_failures boxes it: the
\* value is kept in the cell the first Box::new will take.
Building == 1

\* values of FALLIBLE_SEED
EnvSamples ==
    { EnvUnset, EnvNotUnicode,
      EnvText(<< >>),
      EnvText(<< "0" >>),
      EnvText(<< "7" >>),
      EnvText(<< "0", "0", "7" >>),
      EnvText(<< "+", "7" >>),
      EnvText(<< "1", "2", "3", "4", "5" >>),
      EnvText(<< "-", "1" >>),
      EnvText(<< "+" >>),
      EnvText(<< " ", "7" >>),
      EnvText(<< "7", " " >>),
      EnvText(<< "1", "2", "a" >>),
      EnvText(<< "0", "x", "1", "0" >>),
      EnvText(<< "1", ".", "5" >>),
      EnvText(<< "1", "8", "4", "4", "6", "7", "4", "4", "0", "7",
                 "3", "7", "0", "9", "5", "5", "1", "6", "1", "5" >>),
      EnvText(<< "1", "8", "4", "4", "6", "7", "4", "4", "0", "7",
                 "3", "7", "0", "9", "5", "5", "1", "6", "1", "6" >>),
      EnvText(<< "9", "9", "9", "9", "9", "9", "9", "9", "9", "9",
                 "9", "9", "9", "9", "9", "9", "9", "9", "9", "9", "9" >>) }

Build(config) ==
    /\ heap' = [heap EXCEPT ![Building] = config]
    /\ UNCHANGED << CONFIG_PTR, THREAD_CONFIG_PTR, status, owner, guards, chaos_flag, hist, pc >>

BuildSeed ==
    \E s \in SeedSamples :
        /\ Build(with_seed(heap[Building], s))
        /\ ret' = Call("with_seed", 0)

BuildSeedFromEnv ==
    \E env \in EnvSamples :
        /\ Build(with_seed_from_env(heap[Building], env))
        /\ ret' = [Call("with_seed_from_env", 0) EXCEPT !.env = env]

BuildProbability ==
    \E prob \in { << 0, 1 >>, << 3, 10 >>, << 1, 1 >> } :
        /\ Build(with_probability(heap[Building], prob))
        /\ ret' = Call("with_probability", 0)

BuildEvery ==
    \E n \in { 0, 2 } :
        /\ Build(trigger_every(heap[Building], n))
        /\ ret' = Call("trigger_every", 0)

NextBuilder == BuildSeed \/ BuildSeedFromEnv \/ BuildProbability \/ BuildEvery

SpecBuilder == Init /\ [][NextBuilder]_vars

(* ----------------------------------------------------------------------- *)
(* Properties                                                              *)
(* ----------------------------------------------------------------------- *)

IsCheck(r) == r.op = "should_simulate_failure"

(* C1: slot resolution.  A should_simulate_failure call on thread t is evaluated   *)
(* against t's thread-local configuration if t's slot is occupied, otherwise       *)
(* against the global configuration if the global slot is occupied, and returns    *)
(* false, touching nothing, when both are empty.  A call by t that directly        *)
(* follows clear_thread_failure_config on t is evaluated against the global slot.  *)
C1_SlotResolution ==
    [][ /\ IsCheck(ret') =>
            LET t      == ret'.thread
                expect == IF THREAD_CONFIG_PTR[t] # 0 THEN THREAD_CONFIG_PTR[t] ELSE CONFIG_PTR
            IN  /\ ret'.config = expect
                /\ expect = 0 => ret'.result = FALSE /\ heap' = heap /\ hist' = hist
                /\ expect # 0 =>
                      /\ ret'.result =
                            check_and_trigger(heap[expect], ret'.fp, chaos_flag, t, ret'.ent).result
                      /\ hist'[expect] = Append(hist[expect], [id |-> ret'.fp, result |-> ret'.result,
                                                            fired |-> ret'.fired])
                      /\ \A a \in Addrs \ { expect } : heap'[a] = heap[a] /\ hist'[a] = hist[a]
        /\ (ret.op = "clear_thread_failure_config" /\ IsCheck(ret') /\ ret'.thread = ret.thread)
              => ret'.config = CONFIG_PTR
      ]_vars

\* thread 1's own configuration was cleared, and its call was then answered by the
\* periodic global configuration
C1_Witness ==
    /\ IsCheck(ret) /\ ret.thread = 1
    /\ THREAD_CONFIG_PTR[1] = 0 /\ CONFIG_PTR = 2 /\ status[1] = "released" /\ owner[1] = 1
    /\ ret.config = 2 /\ heap[2].trigger_every = 2 /\ ret.result

\* fp passes the allow-list of c
Eligible(c, fp) == c.enabled_points = << >> \/ \E i \in 1..Len(c.enabled_points) : c.enabled_points[i] = fp

(* C2: periodic mode.  For a live configuration with trigger_every = n > 0, an     *)
(* empty allow-list and no predicate, the evaluation with ordinal i (counted from  *)
(* 0 since the configuration was built) returned true iff i mod n = 0.             *)
C2_Periodic ==
    \A a \in Addrs :
        (status[a] = "live" /\ heap[a].trigger_every > 0
            /\ heap[a].enabled_points = << >> /\ heap[a].predicate = "none")
        => \A i \in 1..Len(hist[a]) :
              hist[a][i].result = (((i - 1) % heap[a].trigger_every) = 0)

\* trigger_every(3) after four evaluations: ordinals 0 and 3 failed, 1 and 2 did not
C2_Witness ==
    \E a \in Addrs :
        /\ status[a] = "live" /\ heap[a].trigger_every = 3
        /\ heap[a].enabled_points = << >> /\ heap[a].predicate = "none"
        /\ Len(hist[a]) = 4
        /\ hist[a][1].result /\ ~hist[a][2].result /\ ~hist[a][3].result /\ hist[a][4].result

(* C3: predicate gate.  If the configuration a call ran against has a predicate    *)
(* and the predicate is false at that call, the call returned false, whatever the  *)
(* threshold, trigger_every, allow-list and seed are.                              *)
C3_PredicateGate ==
    (IsCheck(ret) /\ ret.config # 0)
    => LET c == heap[ret.config]
       IN  (c.predicate # "none" /\ ~Predicate(c.predicate, chaos_flag)) => ret.result = FALSE

\* probability 1.0 behind a predicate that loads a false flag: the call did not fail
C3_Witness ==
    /\ IsCheck(ret) /\ ret.config # 0
    /\ heap[ret.config].predicate = "flag" /\ ~chaos_flag
    /\ heap[ret.config].probability = U32Max /\ heap[ret.config].trigger_every = 0
    /\ heap[ret.config].enabled_points = << >>
    /\ ~ret.result

(* C4: probability at maximum always fails.  A call that ran against a             *)
(* configuration with threshold u32::MAX, trigger_every 0, no predicate and an     *)
(* eligible call site returned true.                                               *)
C4_MaxAlwaysFails ==
    (IsCheck(ret) /\ ret.config # 0)
    => LET c == heap[ret.config]
       IN  (c.probability = U32Max /\ c.trigger_every = 0 /\ c.predicate = "none"
               /\ Eligible(c, ret.fp))
           => ret.result = TRUE

(* C5: the default configuration never fails.  For a live configuration with       *)
(* threshold 0 and trigger_every 0, every evaluation routed to it returned false.  *)
C5_DefaultNeverFails ==
    \A a \in Addrs :
        (status[a] = "live" /\ heap[a].probability = Zero32 /\ heap[a].trigger_every = 0)
        => \A i \in 1..Len(hist[a]) : hist[a][i].result = FALSE

\* FailureConfig::new() after calls from both call sites
C5_Witness ==
    \E a \in Addrs :
        /\ status[a] = "live" /\ heap[a] = [new EXCEPT !.counter = heap[a].counter]
        /\ Len(hist[a]) >= 3
        /\ \E i, j \in 1..Len(hist[a]) : hist[a][i].id = IdReadConfig /\ hist[a][j].id = IdFetchData
        /\ IsCheck(ret) /\ ret.config = a /\ ~ret.result

(* C6: allow-list.  With a non-empty allow-list a call from a call site that is    *)
(* not listed returns false; a call from a listed call site, or any call when the  *)
(* list is empty, returns what the same configuration with an empty list returns.  *)
C6_AllowList ==
    [][ (IsCheck(ret') /\ ret'.config # 0)
        => LET c      == heap[ret'.config]
               listed == \E i \in 1..Len(c.enabled_points) : c.enabled_points[i] = ret'.fp
               open   == [c EXCEPT !.enabled_points = << >>]
           IN  /\ (c.enabled_points # << >> /\ ~listed) => ret'.result = FALSE
               /\ (c.enabled_points = << >> \/ listed)
                     => ret'.result =
                            should_trigger(open, ret'.fp, chaos_flag, ret'.thread, ret'.ent).result
      ]_vars

\* only read_config is listed: a fetch_data call was refused and a read_config call failed
C6_Witness ==
    \E a \in Addrs :
        /\ status[a] = "live" /\ heap[a].enabled_points = << IdReadConfig >>
        /\ \E i, j \in 1..Len(hist[a]) :
              /\ hist[a][i].id = IdFetchData /\ ~hist[a][i].result
              /\ hist[a][j].id = IdReadConfig /\ hist[a][j].result

\* the behavioural fields of a configuration, as built
AsBuilt(c) == [c EXCEPT !.counter = 0, !.failures_triggered = 0]

\* runs 1 and 2 were given the same call sites up to call i
SameCalls(i) == \A j \in 1..i : hist[1][j].id = hist[2][j].id

Shorter == IF Len(hist[1]) <= Len(hist[2]) THEN Len(hist[1]) ELSE Len(hist[2])

(* C7 as stated: seeded reproducibility for any seed value.  Two runs that         *)
(* installed configurations built alike by with_probability and with_seed, and     *)
(* that presented the same call sites in the same order, got the same verdicts.    *)
C7_AnySeedReproducible ==
    AsBuilt(heap[1]) = AsBuilt(heap[2])
    => \A i \in 1..Shorter : SameCalls(i) => hist[1][i].result = hist[2][i].result

(* C7 amended: the same for every seed other than 0.                               *)
C7_NonZeroSeedReproducible ==
    (AsBuilt(heap[1]) = AsBuilt(heap[2]) /\ heap[1].seed # Zero64)
    => \A i \in 1..Shorter : SameCalls(i) => hist[1][i].result = hist[2][i].result

\* seed 12345, probability 0.3: both runs made the same three calls and both saw
\* failures and successes
C7_Witness ==
    /\ heap[1].seed = << 57, 48, 0, 0, 0, 0, 0, 0 >>
    /\ heap[1].probability # Zero32 /\ heap[1].probability # U32Max
    /\ AsBuilt(heap[1]) = AsBuilt(heap[2])
    /\ Len(hist[1]) = 3 /\ hist[1] = hist[2]
    /\ \E i, j \in 1..3 : hist[1][i].result /\ ~hist[1][j].result

\* what should_simulate_failure would return on thread t in the current state
Verdict(t, fp, ent) ==
    IF Resolve(t) = 0 THEN FALSE
    ELSE check_and_trigger(heap[Resolve(t)], fp, chaos_flag, t, ent).result

\* what the global configuration alone would answer thread t
GlobalVerdict(t, fp, ent) ==
    IF CONFIG_PTR = 0 THEN FALSE
    ELSE check_and_trigger(heap[CONFIG_PTR], fp, chaos_flag, t, ent).result

(* C8: scoped install cleanup.  When a guard is dropped, at scope exit or while    *)
(* unwinding, the global slot is empty if it came from with_config, and the        *)
(* dropping thread's own slot is empty if it came from with_thread_config; a       *)
(* should_simulate_failure that follows, with nothing installed in the other slot  *)
(* it consults, returns false.                                                     *)
C8_ScopedCleanup ==
    [][ /\ ret'.op = "drop" =>
             IF ret'.was_global THEN CONFIG_PTR' = 0
                                ELSE THREAD_CONFIG_PTR'[ret'.thread] = 0
        /\ (ret.op = "drop" /\ IsCheck(ret')) =>
             IF ret.was_global
             THEN THREAD_CONFIG_PTR[ret'.thread] = 0 => (~ret'.result /\ ret'.config = 0)
             ELSE (ret'.thread = ret.thread /\ CONFIG_PTR = 0) => (~ret'.result /\ ret'.config = 0)
      ]_vars

\* a with_config guard was dropped by an unwinding thread: the always-failing
\* configuration it had installed is released and no call would fail any more
C8_Witness ==
    /\ ret.op = "drop" /\ ret.how = "unwind" /\ ret.was_global
    /\ CONFIG_PTR = 0 /\ \A t \in Threads : THREAD_CONFIG_PTR[t] = 0
    /\ \E a \in Addrs : status[a] = "released" /\ owner[a] = 0
    /\ \A t \in Threads, ent \in EntropySamples : ~Verdict(t, IdReadConfig, ent)

(* C9 as stated: a guard clears exactly the slot it was created for.  Dropping a   *)
(* with_config guard empties the global slot and changes no thread's slot;         *)
(* dropping a with_thread_config guard created on thread t empties t's slot and    *)
(* changes neither the global slot nor another thread's slot, whichever thread     *)
(* runs the drop.                                                                  *)
C9_ExactSlot ==
    [][ ret'.op = "drop" =>
          LET g == guards[ret'.guard]
          IN  IF g.was_global
              THEN /\ CONFIG_PTR' = 0
                   /\ THREAD_CONFIG_PTR' = THREAD_CONFIG_PTR
              ELSE /\ THREAD_CONFIG_PTR'[g.created_on] = 0
                   /\ CONFIG_PTR' = CONFIG_PTR
                   /\ \A u \in Threads \ { g.created_on } :
                          THREAD_CONFIG_PTR'[u] = THREAD_CONFIG_PTR[u]
      ]_vars

(* C10: thread isolation.  configure_thread_failures, clear_thread_failure_config  *)
(* and with_thread_config run by thread A leave unchanged every verdict that       *)
(* should_simulate_failure would give on another thread B whose own slot is        *)
(* empty, and that verdict is the global configuration's, false if there is none.  *)
C10_ThreadIsolation ==
    [][ ret'.op \in { "configure_thread_failures", "clear_thread_failure_config",
                      "with_thread_config" } =>
          \A B \in Threads \ { ret'.thread } :
              THREAD_CONFIG_PTR[B] = 0 =>
                  \A fp \in Points, ent \in EntropySamples :
                      /\ Verdict(B, fp, ent)' = Verdict(B, fp, ent)
                      /\ Verdict(B, fp, ent)' = GlobalVerdict(B, fp, ent)'
      ]_vars

\* thread 1 installed the always-failing configuration for itself through
\* with_thread_config; thread 2 has none and is answered by the periodic global
\* configuration, differently from thread 1
C10_Witness ==
    /\ ret.op = "with_thread_config" /\ ret.thread = 1
    /\ THREAD_CONFIG_PTR[1] # 0 /\ THREAD_CONFIG_PTR[2] = 0 /\ CONFIG_PTR # 0
    /\ heap[CONFIG_PTR].trigger_every = 2 /\ heap[CONFIG_PTR].counter = 1
    /\ heap[THREAD_CONFIG_PTR[1]].probability = U32Max
    /\ \E ent \in EntropySamples :
           Verdict(2, IdReadConfig, ent) # Verdict(1, IdReadConfig, ent)

\* a sits in a slot
Installed(a) == a = CONFIG_PTR \/ \E t \in Threads : THREAD_CONFIG_PTR[t] = a

\* the threads that swapped a out of the global slot and have not returned yet
Dropping(a) == { t \in Threads : pc[t].stage = "drop" /\ pc[t].ptr = a }

(* C11: exactly-once release on swap.  Under every interleaving of                *)
(* configure_failures and clear_failure_config, no configuration is released      *)
(* twice; a configuration swapped out of the global slot is held by exactly one   *)
(* caller, which releases it before it returns, so whatever is still unreleased   *)
(* is either installed or in the hands of a caller that has not returned.  The    *)
(* same for each thread's own installs and clears.                                *)
C11_ReleasedOnce ==
    \A a \in Addrs :
        /\ status[a] # "released_twice"
        /\ Cardinality(Dropping(a)) <= 1
        /\ status[a] = "live" => (Installed(a) \/ Dropping(a) # { })
        /\ Dropping(a) # { } => (status[a] = "live" /\ ~Installed(a))

\* both threads are between their swap and their drop, each holding a different
\* configuration that it took out of the global slot
C11_Witness ==
    /\ pc[1].stage = "drop" /\ pc[2].stage = "drop"
    /\ pc[1].ptr # pc[2].ptr
    /\ status[pc[1].ptr] = "live" /\ status[pc[2].ptr] = "live"

(* C12 as stated: no race between readers and replacement.  While a               *)
(* should_simulate_failure or get_failure_stats call that has loaded a            *)
(* configuration still has steps to take, that configuration is unreleased, and   *)
(* no call that returned has used a released configuration.                       *)
C12_NoUseAfterRelease ==
    /\ \A t \in Threads :
          pc[t].op \in { "should_simulate_failure", "get_failure_stats" }
          => (status[pc[t].ptr] = "live" /\ ~pc[t].call.stale)
    /\ ~ret.stale

Admitted(c, h) == { i \in 1..Len(h) : Eligible(c, h[i].id) }

Failed(h) == { i \in 1..Len(h) : h[i].result }

(* C14: failure count.  For an installed configuration none of whose evaluations  *)
(* is still in progress, total_failures of its statistics equals the number of    *)
(* evaluations routed to it that returned true.                                   *)
C14_FailureCount ==
    \A a \in Addrs :
        (status[a] = "live" /\ InFlight(a) = { })
        => stats(heap[a]).total_failures = Cardinality(Failed(hist[a]))

\* the periodic configuration after two evaluations, the first of which failed
C14_Witness ==
    \E a \in Addrs :
        /\ status[a] = "live" /\ InFlight(a) = { } /\ heap[a].trigger_every = 2
        /\ Len(hist[a]) = 2 /\ hist[a][1].result /\ ~hist[a][2].result
        /\ stats(heap[a]).total_failures = 1

(* C15: counter invariant.  In every state, also while several threads are in     *)
(* the middle of evaluating the same configuration, an unreleased                 *)
(* configuration's failure counter is at most its check counter.                  *)
C15_FailuresAtMostChecks ==
    \A a \in Addrs :
        status[a] = "live" => heap[a].failures_triggered <= heap[a].counter

\* both threads are inside an evaluation of the same always-failing configuration:
\* thread 1 has counted its check and not yet its failure, thread 2 has counted both
C15_Witness ==
    /\ pc[1].op = "should_simulate_failure" /\ pc[1].stage = "count_failure"
    /\ pc[2].op = "should_simulate_failure" /\ pc[2].stage = "on_failure"
    /\ pc[1].ptr = pc[2].ptr /\ status[pc[1].ptr] = "live"
    /\ heap[pc[1].ptr].counter = 2 /\ heap[pc[1].ptr].failures_triggered = 1

(* C16 as stated: snapshot invariant.  Every FailureStats that get_failure_stats  *)
(* returns from an unreleased configuration has total_failures <= total_checks,   *)
(* also when evaluations by other threads run between its two loads.              *)
C16_SnapshotOrdered ==
    (ret.op = "get_failure_stats" /\ ret.result /\ ~ret.stale)
    => ret.snap.total_failures <= ret.snap.total_checks

\* how often the event e is in the sequence f
Times(f, e) == Cardinality({ i \in 1..Len(f) : f[i] = e })

(* C17: counters only increase.  No step of any call, whether part of an          *)
(* evaluation, a statistics read, a hook, or an install or clear of another       *)
(* configuration, lowers the check counter or the failure counter of an           *)
(* unreleased configuration; and one evaluation adds at most 1 to each.           *)
C17_CountersOnlyIncrease ==
    [][ /\ \A a \in Addrs :
              (status[a] = "live" /\ status'[a] = "live") =>
                 /\ heap'[a].counter \in { heap[a].counter, heap[a].counter + 1 }
                 /\ heap'[a].failures_triggered \in
                       { heap[a].failures_triggered, heap[a].failures_triggered + 1 }
        /\ (IsCheck(ret') /\ ~ret'.stale) =>
              /\ Times(ret'.fired, "counter") <= 1
              /\ Times(ret'.fired, "failures_triggered") <= 1
      ]_vars

\* a configuration that has counted two checks and a failure is still installed while
\* another one is installed beside it and its statistics have just been read
C17_Witness ==
    \E a, b \in Addrs :
        /\ a # b /\ status[a] = "live" /\ status[b] = "live"
        /\ heap[a].counter = 2 /\ heap[a].failures_triggered = 1
        /\ ret.op = "get_failure_stats" /\ ret.config = a /\ ret.snap = stats(heap[a])

\* thread t returns from should_simulate_failure in this step, having used only an
\* unreleased configuration
Returns(t) ==
    /\ pc[t].op = "should_simulate_failure" /\ pc'[t] = Idle
    /\ ret'.thread = t /\ IsCheck(ret') /\ ~ret'.stale

(* C18: on_check.  An evaluation routed to a configuration with an on_check hook  *)
(* calls the hook exactly once, as the first thing it does: before the predicate  *)
(* and the allow-list are looked at and before a counter is incremented, so also  *)
(* when the predicate is false or the call site is not on the list.  A call that  *)
(* finds both slots empty calls no hook.                                          *)
C18_OnCheckFirstOnce ==
    [][ /\ \A t \in Threads :
              Returns(t) =>
                 IF heap[pc[t].ptr].on_check # "none"
                 THEN /\ Times(ret'.fired, "on_check") = 1
                      /\ ret'.fired[1] = "on_check"
                      /\ Times(ret'.fired, "should_trigger") = 1
                 ELSE Times(ret'.fired, "on_check") = 0
        /\ (IsCheck(ret') /\ ret'.config = 0) => ret'.fired = << >>
      ]_vars

\* an evaluation of the configuration whose predicate is false returned false after
\* calling on_check and touching no counter
C18_Witness ==
    /\ IsCheck(ret) /\ ret.config # 0 /\ status[ret.config] = "live"
    /\ heap[ret.config].predicate = "never" /\ heap[ret.config].on_check = "log"
    /\ ~ret.result /\ ret.fired = << "on_check", "should_trigger", "predicate" >>
    /\ heap[ret.config].counter = 0

(* C19: on_failure.  An evaluation routed to a configuration with an on_failure   *)
(* hook calls the hook once if its verdict is true and not at all if it is false, *)
(* and calls it after its own increment of the failure counter: the statistics    *)
(* the hook reads already include the failure it is told about.                   *)
C19_OnFailureAfterCount ==
    [][ \A t \in Threads :
           (Returns(t) /\ heap[pc[t].ptr].on_failure # "none") =>
              LET f == ret'.fired
              IN  /\ Times(f, "on_failure") = (IF ret'.result THEN 1 ELSE 0)
                  /\ ret'.result =>
                        /\ \E i, j \in 1..Len(f) :
                              i < j /\ f[i] = "failures_triggered" /\ f[j] = "on_failure"
                        /\ ret'.seen.total_failures >= Cardinality(Failed(hist[pc[t].ptr])) + 1
      ]_vars

\* the second failing evaluation of the always-failing configuration: its on_failure
\* hook read total_failures = 2
C19_Witness ==
    /\ IsCheck(ret) /\ ret.result /\ ret.config # 0 /\ status[ret.config] = "live"
    /\ heap[ret.config].on_failure = "log"
    /\ ret.fired = << "on_check", "should_trigger", "allow_list", "counter",
                     "failures_triggered", "on_failure" >>
    /\ Len(hist[ret.config]) = 2 /\ ret.seen.total_failures = 2

(* C20: periodic mode takes precedence.  For a configuration with both            *)
(* trigger_every = n > 0 and a probability above 0, the evaluation that takes     *)
(* ordinal c returns true iff c mod n = 0, whatever the threshold, the seed and   *)
(* the hash are; the probabilistic branch is not entered, so no run-time entropy  *)
(* is drawn even without a seed.                                                  *)
C20_PeriodicPrecedence ==
    [][ (IsCheck(ret') /\ ret'.config # 0) =>
          LET c == heap[ret'.config]
          IN  ( /\ c.trigger_every > 0 /\ ~IsZero(c.probability)
                /\ (c.predicate = "none" \/ Predicate(c.predicate, chaos_flag))
                /\ Eligible(c, ret'.fp) )
              => /\ ret'.result = ((c.counter % c.trigger_every) = 0)
                 /\ heap'[ret'.config].counter = c.counter + 1
                 /\ ret'.ent = NoEntropy
      ]_vars

\* probability 1.0 with trigger_every(3) and no seed: the evaluation with ordinal 1
\* did not fail
C20_Witness ==
    /\ IsCheck(ret) /\ ret.config = 1
    /\ heap[1].trigger_every = 3 /\ heap[1].probability = U32Max /\ heap[1].seed = Zero64
    /\ heap[1].predicate = "none" /\ heap[1].enabled_points = << >>
    /\ heap[1].counter = 2 /\ ~ret.result

\* the call record of thread t after a step it took: returned, or still in progress
After(t) == IF pc'[t] = Idle THEN ret' ELSE pc'[t].call

(* C21: unique ordinals under contention.  When threads evaluate one              *)
(* configuration concurrently, an evaluation that reaches the counter gets the    *)
(* counter's value and leaves it one higher, and no evaluation still in progress  *)
(* holds that value: the ordinals handed out are 0, 1, .. k-1, each once.  Hence  *)
(* a periodic configuration with trigger_every = n whose evaluations have all     *)
(* returned has seen exactly ceil(k/n) true verdicts, in every interleaving.      *)
C21_UniqueOrdinals ==
    [][ /\ \A t \in Threads :
              ( /\ pc[t].op = "should_simulate_failure" /\ pc[t].stage = "should_trigger"
                /\ pc'[t] # pc[t] /\ status[pc[t].ptr] = "live"
                /\ After(t).ordinal >= 0 )
              => LET a == pc[t].ptr
                     c == After(t).ordinal
                 IN  /\ c = heap[a].counter
                     /\ heap'[a].counter = c + 1
                     /\ \A u \in InFlight(a) \ { t } : pc[u].call.ordinal < c
        /\ \A a \in Addrs :
              ( /\ status'[a] = "live" /\ InFlight(a)' = { }
                /\ heap'[a].trigger_every > 0
                /\ heap'[a].predicate = "none" /\ heap'[a].enabled_points = << >> )
              => Cardinality(Failed(hist'[a])) =
                    (heap'[a].counter + heap'[a].trigger_every - 1) \div heap'[a].trigger_every
      ]_vars

\* two threads were inside the periodic configuration together: the evaluation that
\* drew ordinal 1 returned false before the one that drew ordinal 0 returned true
C21_Witness ==
    \E a \in Addrs :
        /\ status[a] = "live" /\ InFlight(a) = { } /\ heap[a].trigger_every = 2
        /\ heap[a].counter = 2 /\ Len(hist[a]) = 2
        /\ ~hist[a][1].result /\ hist[a][2].result
        /\ IsCheck(ret) /\ ret.config = a /\ ret.ordinal = 0

(* C22: a failed gate touches no counters.  An evaluation turned away by a false  *)
(* predicate, or by a non-empty allow-list that lacks its call site, returns      *)
(* false, draws no ordinal and leaves the check counter and the failure counter   *)
(* as they were; so in periodic mode the j-th evaluation that the allow-list      *)
(* admits fails iff (j - 1) mod n = 0, however many rejected ones came between.   *)
C22_FailedGateCountsNothing ==
    [][ (IsCheck(ret') /\ ret'.config # 0) =>
          LET a    == ret'.config
              c    == heap[a]
              shut == c.predicate # "none" /\ ~Predicate(c.predicate, chaos_flag)
          IN  /\ (shut \/ ~Eligible(c, ret'.fp)) =>
                    /\ ~ret'.result /\ ret'.ordinal = -1
                    /\ heap'[a].counter = c.counter
                    /\ heap'[a].failures_triggered = c.failures_triggered
              /\ (c.predicate = "none" /\ c.trigger_every > 0) =>
                    \A i \in Admitted(c, hist'[a]) :
                        hist'[a][i].result =
                           ((Cardinality({ k \in Admitted(c, hist'[a]) : k < i })
                                % c.trigger_every) = 0)
      ]_vars

\* trigger_every(2) with only read_config on the allow-list: read_config failed,
\* fetch_data was turned away, and the next two read_config calls passed and failed
C22_Witness ==
    /\ IsCheck(ret) /\ ret.config = 1 /\ heap[1].trigger_every = 2
    /\ heap[1].enabled_points = << IdReadConfig >> /\ heap[1].predicate = "none"
    /\ Len(hist[1]) = 4 /\ heap[1].counter = 3
    /\ hist[1][1].id = IdReadConfig /\ hist[1][1].result
    /\ hist[1][2].id = IdFetchData /\ ~hist[1][2].result
    /\ hist[1][3].id = IdReadConfig /\ ~hist[1][3].result
    /\ hist[1][4].id = IdReadConfig /\ hist[1][4].result

\* the step released nothing and moved nothing
NothingReleased == UNCHANGED << CONFIG_PTR, THREAD_CONFIG_PTR, heap, status, owner, hist >>

(* C23: clearing is idempotent.  clear_failure_config, clear_thread_failure_config *)
(* and the drop of a guard leave the slot they clear empty; when that slot was     *)
(* empty already they change no slot and release nothing, so clearing twice does   *)
(* what clearing once does.                                                        *)
C23_ClearIdempotent ==
    [][ /\ ret'.op = "clear_failure_config" =>
              /\ CONFIG_PTR' = 0
              /\ CONFIG_PTR = 0 => NothingReleased
        /\ ret'.op = "clear_thread_failure_config" =>
              /\ THREAD_CONFIG_PTR'[ret'.thread] = 0
              /\ THREAD_CONFIG_PTR[ret'.thread] = 0 => NothingReleased
        /\ ret'.op = "drop" =>
              LET slot == IF ret'.was_global THEN CONFIG_PTR
                          ELSE THREAD_CONFIG_PTR[ret'.thread]
              IN  slot = 0 => NothingReleased
      ]_vars

\* thread 1 cleared its own slot, which never held anything, while a global
\* configuration is installed: that one is still there
C23_Witness ==
    /\ ret.op = "clear_thread_failure_config" /\ ret.thread = 1
    /\ THREAD_CONFIG_PTR[1] = 0 /\ \A a \in Addrs : owner[a] # 1
    /\ CONFIG_PTR # 0 /\ status[CONFIG_PTR] = "live"

\* the next step of the call thread t is inside
ThreadStep(t) ==
    \/ eval_on_check(t) \/ (\E ent \in EntropySamples : eval_should_trigger(t, ent))
    \/ eval_count_failure(t) \/ eval_on_failure(t)
    \/ stats_total_checks(t) \/ stats_total_failures(t)
    \/ drop_old(t)

(* C24 as stated: non-blocking and panic-free.  With hooks that return, no call   *)
(* ends in a fault, a thread inside a call can always take its next step          *)
(* whatever the other threads are doing, and each slot holds nothing or one       *)
(* fully built, unreleased configuration, under every interleaving.               *)
C24_CompletesWithoutFault ==
    /\ ret.how # "crash"
    /\ \A t \in Threads : pc[t] # Idle => ENABLED ThreadStep(t)
    /\ CONFIG_PTR # 0 => status[CONFIG_PTR] = "live"
    /\ \A t \in Threads : THREAD_CONFIG_PTR[t] # 0 => status[THREAD_CONFIG_PTR[t]] = "live"

C26_StatsResolution ==
    [][\A t \in Threads :
          LET tl       == THREAD_CONFIG_PTR[t]
              expected == IF tl # 0 THEN tl ELSE CONFIG_PTR
              started  == pc[t] = Idle /\ pc'[t].op = "get_failure_stats"
              none     == /\ pc[t] = Idle /\ pc'[t] = Idle /\ ret' # ret
                          /\ ret'.op = "get_failure_stats" /\ ret'.thread = t
              inside   == pc[t].op = "get_failure_stats" /\ pc'[t] # pc[t]
              ptr      == pc[t].ptr
          IN  /\ started => expected # 0 /\ pc'[t].ptr = expected /\ Resolve(t) = expected
              /\ none => expected = 0 /\ Resolve(t) = 0 /\ ret'.config = 0 /\ ret'.snap = NoStats
              /\ started \/ none \/ inside =>
                     UNCHANGED << CONFIG_PTR, THREAD_CONFIG_PTR, heap, status, owner, hist, chaos_flag >>
              /\ inside /\ status[ptr] = "live" /\ pc[t].stage = "total_checks" =>
                     pc'[t].call.snap.total_checks = heap[ptr].counter
              /\ inside /\ status[ptr] = "live" /\ pc[t].stage = "total_failures" =>
                     /\ ret'.snap.total_failures = heap[ptr].failures_triggered
                     /\ ret'.config = ptr]_vars

\* a thread with its own configuration got that one's counters (none counted)
\* while the global configuration had counted calls
C26_Witness ==
    /\ ret.op = "get_failure_stats" /\ ~ret.stale
    /\ ret.config # 0 /\ ret.config = THREAD_CONFIG_PTR[ret.thread]
    /\ CONFIG_PTR # 0 /\ CONFIG_PTR # ret.config
    /\ heap[CONFIG_PTR].counter > 0
    /\ ret.snap = NoStats

\* C27: trigger_every(0) disables periodic mode.  An evaluation against a
\* configuration with trigger_every = 0 never takes the periodic branch: past
\* the predicate and the allow-list its verdict is the probabilistic rule's
\* when the threshold is above 0, and false, with no ordinal drawn, when the
\* threshold is 0; so circuit_breaker(0) never fails.
C27_ZeroDisablesPeriodic ==
    [][(IsCheck(ret') /\ ret'.config # 0 /\ hist' # hist
            /\ heap[ret'.config].trigger_every = 0)
       => LET c    == heap[ret'.config]
              c2   == heap'[ret'.config]
              open == /\ c.predicate = "none" \/ Predicate(c.predicate, chaos_flag)
                      /\ Eligible(c, ret'.fp)
              rule == WLt(FinalHash(c, ret'.fp, c.counter, ret'.thread, ret'.ent),
                          c.probability)
          IN  /\ ~open => ~ret'.result
              /\ IsZero(c.probability) => ~ret'.result /\ c2.counter = c.counter
              /\ (open /\ ~IsZero(c.probability)) =>
                     ret'.result = rule /\ c2.counter = c.counter + 1
              /\ AsBuilt(c) = circuit_breaker(0) => ~ret'.result /\ c2 = c]_vars

\* circuit_breaker(0) after as many evaluations as the bound allows: none failed
C27_Witness ==
    /\ AsBuilt(heap[1]) = circuit_breaker(0)
    /\ Len(hist[1]) = MaxCalls
    /\ \A i \in 1..MaxCalls : ~hist[1][i].result
    /\ stats(heap[1]) = NoStats

\* the configuration at a has no seed and a threshold strictly between 0 and u32::MAX
Unseeded(a) ==
    /\ status[a] = "live" /\ IsZero(heap[a].seed)
    /\ ~IsZero(heap[a].probability) /\ heap[a].probability # U32Max
    /\ heap[a].trigger_every = 0

\* the verdict the configuration at a gives call site fp at ordinal k on
\* thread t when the clock and the stack address read ent
VerdictAt(a, fp, k, t, ent) ==
    should_trigger([heap[a] EXCEPT !.counter = k], fp, chaos_flag, t, ent).result

\* C28: unseeded runs are not forced into lockstep.  For a configuration with
\* seed 0 and a threshold strictly between 0 and the maximum, the verdict is
\* not a function of the call-site id and the ordinal: there is a call site
\* and an ordinal that get different verdicts under two readings of the clock
\* and the stack address on one thread, and one that gets different verdicts
\* on two threads under the same reading; so two runs presenting the same
\* sequence of call sites can return different verdict sequences.
C28_UnseededRunsDiverge ==
    \A a \in { 1, 2 } :
        Unseeded(a)
        => /\ \A t \in Threads :
                 \E fp \in Points, k \in 0..(MaxCalls - 1), e1, e2 \in EntropySamples :
                     VerdictAt(a, fp, k, t, e1) # VerdictAt(a, fp, k, t, e2)
           /\ \E fp \in Points, k \in 0..(MaxCalls - 1), e \in EntropySamples :
                 VerdictAt(a, fp, k, 1, e) # VerdictAt(a, fp, k, 2, e)

\* two runs of one unseeded configuration presented the same call sites in the
\* same order and did not get the same verdicts
C28_Witness ==
    /\ Unseeded(1) /\ Unseeded(2) /\ AsBuilt(heap[1]) = AsBuilt(heap[2])
    /\ Len(hist[1]) = 2 /\ Len(hist[2]) = 2 /\ SameCalls(2)
    /\ \E i \in 1..2 : hist[1][i].result # hist[2][i].result

\* C29 as stated: one configuration per evaluation.  Every step of a
\* should_simulate_failure call does what the configuration it loaded
\* prescribes, also when another thread replaces or clears the slot meanwhile:
\* on_check and on_failure are called iff that configuration has them, the
\* verdict and the ordinal are should_trigger's on that configuration, the
\* failure counter that is incremented is that configuration's, no other
\* configuration is touched, and the configuration is still there at each step.
C29_OneConfiguration ==
    [][\A t \in Threads :
          (pc[t].op = "should_simulate_failure" /\ pc'[t] # pc[t])
          => LET ptr    == pc[t].ptr
                 c      == heap[ptr]
                 before == pc[t].call
                 after  == After(t)
                 stage  == pc[t].stage
             IN  /\ status[ptr] = "live" /\ ~after.stale
                 /\ after.config = ptr /\ after.how # "crash"
                 /\ pc'[t] # Idle => pc'[t].ptr = ptr
                 /\ \A a \in Addrs \ { ptr } : heap'[a] = heap[a]
                 /\ stage = "on_check" =>
                        (Times(after.fired, "on_check") = 1) = (c.on_check # "none")
                 /\ stage = "should_trigger" =>
                        \E ent \in EntropySamples \cup { NoEntropy } :
                            LET st == should_trigger(c, before.fp, chaos_flag, t, ent)
                            IN  after.result = st.result /\ heap'[ptr].counter = st.counter
                 /\ stage = "count_failure" =>
                        heap'[ptr].failures_triggered = c.failures_triggered + 1
                 /\ stage = "on_failure" =>
                        (Times(after.fired, "on_failure") = 1) = (c.on_failure # "none")]_vars

\* the call sites recorded in h strictly alternate between two different ones
Alternating(h) ==
    /\ Len(h) >= 2 /\ h[1].id # h[2].id
    /\ \A i \in 3..Len(h) : h[i].id = h[i - 2].id

\* C30: the ordinal is per configuration, not per call site.  An evaluation
\* against a configuration with trigger_every = n > 0, no predicate and an
\* empty allow-list draws as its ordinal the number of evaluations made against
\* that configuration before it, from whichever call sites, and fails iff that
\* ordinal is divisible by n; so with n = 2 and two call sites strictly
\* alternating, every call of the first site fails and no call of the second.
C30_OrdinalPerConfiguration ==
    [][(IsCheck(ret') /\ ret'.config # 0 /\ hist' # hist
            /\ heap[ret'.config].trigger_every > 0
            /\ heap[ret'.config].predicate = "none"
            /\ heap[ret'.config].enabled_points = << >>)
       => LET a == ret'.config
              n == heap[a].trigger_every
          IN  /\ ret'.ordinal = Len(hist[a])
              /\ heap'[a].counter = Len(hist'[a])
              /\ ret'.result = ((Len(hist[a]) % n) = 0)
              /\ (n = 2 /\ Alternating(hist'[a])) =>
                     \A i \in 1..Len(hist'[a]) :
                         hist'[a][i].result = (hist'[a][i].id = hist'[a][1].id)]_vars

\* trigger_every(2), call sites A, B, A, B: both A calls failed, no B call did
C30_Witness ==
    /\ heap[1].trigger_every = 2 /\ heap[1].predicate = "none"
    /\ heap[1].enabled_points = << >>
    /\ Len(hist[1]) = 4 /\ Alternating(hist[1])
    /\ hist[1][1].result /\ ~hist[1][2].result /\ hist[1][3].result /\ ~hist[1][4].result
    /\ stats(heap[1]) = [total_checks |-> 4, total_failures |-> 2]

\* C31: the predicate is called exactly once per evaluation routed to a
\* configuration that has one (and never for one that has none), after on_check
\* and before the allow-list test and any counter increment; it is called also
\* when the allow-list would reject the call site and when probability and
\* trigger_every are both 0.
C31_PredicateOncePerEvaluation ==
    [][(IsCheck(ret') /\ ret'.config # 0 /\ hist' # hist)
       => LET c == heap[ret'.config]
              f == ret'.fired
          IN  /\ Times(f, "predicate") = (IF c.predicate # "none" THEN 1 ELSE 0)
              /\ \A i, j \in 1..Len(f) :
                    /\ (f[i] = "on_check" /\ f[j] = "predicate") => i < j
                    /\ (f[i] = "predicate"
                           /\ f[j] \in { "allow_list", "counter", "failures_triggered" })
                       => i < j
              /\ (c.predicate # "none" /\ ~Eligible(c, ret'.fp)) => Times(f, "predicate") = 1
              /\ (c.predicate # "none" /\ IsZero(c.probability) /\ c.trigger_every = 0)
                    => Times(f, "predicate") = 1]_vars

\* a call site the allow-list rejects, on a configuration with hooks and a
\* predicate that holds: on_check, then the predicate, then the allow-list
C31_Witness ==
    /\ IsCheck(ret) /\ ret.config # 0
    /\ heap[ret.config].predicate = "flag" /\ chaos_flag
    /\ heap[ret.config].enabled_points # << >> /\ ~Eligible(heap[ret.config], ret.fp)
    /\ ret.fired = << "on_check", "should_trigger", "predicate", "allow_list" >>
    /\ ~ret.result /\ heap[ret.config].counter = 0

\* the call that just returned installed a configuration in the place of another
Replaced(old_ptr, new_ptr) ==
    /\ ret'.op \in { "configure_failures", "configure_thread_failures",
                     "with_config", "with_thread_config" }
    /\ old_ptr # 0 /\ new_ptr # old_ptr /\ new_ptr = ret'.config

\* C32: installing supersedes wholesale.  When an install replaces the
\* configuration of a slot, the slot holds the new configuration as built, with
\* both counters 0 and no evaluation to its name, and the old one is gone; and
\* every evaluation is made against the configuration now in the resolved slot
\* and against nothing else: its ordinal is the number of evaluations since
\* that configuration was installed, so with trigger_every > 0 the first one
\* fails, and the statistics of the slot count these evaluations only.
C32_InstallSupersedes ==
    [][/\ Replaced(CONFIG_PTR, CONFIG_PTR') =>
              /\ AsBuilt(heap'[CONFIG_PTR']) = heap'[CONFIG_PTR']
              /\ hist'[CONFIG_PTR'] = << >> /\ status'[CONFIG_PTR] = "released"
              /\ \A t \in Threads :
                    THREAD_CONFIG_PTR'[t] = 0 => stats(heap'[ResolveStats(t)']) = NoStats
       /\ \A t \in Threads :
              Replaced(THREAD_CONFIG_PTR[t], THREAD_CONFIG_PTR'[t]) =>
                  /\ AsBuilt(heap'[THREAD_CONFIG_PTR'[t]]) = heap'[THREAD_CONFIG_PTR'[t]]
                  /\ hist'[THREAD_CONFIG_PTR'[t]] = << >>
                  /\ status'[THREAD_CONFIG_PTR[t]] = "released"
                  /\ stats(heap'[ResolveStats(t)']) = NoStats
       /\ \A t \in Threads :
            (IsCheck(ret') /\ ret'.thread = t /\ ret'.config # 0 /\ hist' # hist) =>
              LET a == ret'.config
              IN  /\ a = Resolve(t) /\ status[a] = "live"
                  /\ ret'.result = check_and_trigger(heap[a], ret'.fp, chaos_flag, t, ret'.ent).result
                  /\ ret'.ordinal = Len(hist[a])
                  /\ (heap[a].trigger_every > 0 /\ hist[a] = << >>) => ret'.result
                  /\ \A b \in Addrs \ { a } : heap'[b] = heap[b]
                  /\ stats(heap'[ResolveStats(t)']) =
                        [ total_checks   |-> Len(hist'[a]),
                          total_failures |-> Cardinality(Failed(hist'[a])) ]]_vars

\* circuit_breaker(2) took the global slot from a configuration that is now
\* released; its first evaluation failed and the statistics read 1 of 1
C32_Witness ==
    /\ IsCheck(ret) /\ ret.config = CONFIG_PTR /\ CONFIG_PTR # 0
    /\ \E old \in Addrs : old # CONFIG_PTR /\ status[old] = "released" /\ owner[old] = 0
    /\ heap[CONFIG_PTR].trigger_every = 2
    /\ ret.result /\ ret.ordinal = 0
    /\ stats(heap[CONFIG_PTR]) = [total_checks |-> 1, total_failures |-> 1]
    /\ \A t \in Threads : THREAD_CONFIG_PTR[t] = 0

\* guard g has just been dropped by thread t
Dropped(g, t) == guards[g].alive /\ ~guards'[g].alive /\ ret'.op = "drop" /\ ret'.thread = t

\* C33: a guard does not restore and does not track its configuration.
\* Dropping a guard made by with_config leaves the global slot empty, and
\* dropping one made by with_thread_config leaves the slot of the thread that
\* runs the drop empty, whichever configuration was in that slot: the guard's
\* own, one installed over it by a nested scoped install, or one installed by
\* an unrelated configure call.  That configuration is released, nothing is
\* reinstated, and the other guards stay alive.
C33_GuardClearsWhateverIsThere ==
    [][\A g \in Guards, t \in Threads :
          Dropped(g, t)
          => LET slot == IF guards[g].was_global THEN CONFIG_PTR ELSE THREAD_CONFIG_PTR[t]
             IN  /\ IF guards[g].was_global
                    THEN CONFIG_PTR' = 0 /\ UNCHANGED THREAD_CONFIG_PTR
                    ELSE THREAD_CONFIG_PTR' = [THREAD_CONFIG_PTR EXCEPT ![t] = 0]
                         /\ UNCHANGED CONFIG_PTR
                 /\ slot # 0 => status'[slot] = "released"
                 /\ \A a \in Addrs \ { slot } : status'[a] = status[a]
                 /\ \A h \in Guards \ { g } : guards'[h] = guards[h]]_vars

\* with_config(A), then with_config(B); B's guard was dropped: the global slot
\* is empty, A is not back, and A's guard is still alive
C33_Witness ==
    /\ ret.op = "drop" /\ ret.was_global /\ CONFIG_PTR = 0
    /\ \E h \in Guards \ { ret.guard } :
          /\ guards[h].alive /\ guards[h].was_global /\ guards[h].config = 1
          /\ status[1] = "released" /\ status[2] = "released" /\ owner[2] = 0

\* C34: frame of an evaluation.  A should_simulate_failure call on thread t
\* changes nothing but the check counter and the failure counter of the one
\* configuration it resolved to, each by at most 1: both slots keep their
\* occupants, no box is released, and every other configuration is as it was.
\* While t has a thread-local configuration, t's evaluations leave the global
\* configuration's counters alone, and the hooks and the predicate that are
\* called are the thread-local configuration's.
C34_EvaluationFrame ==
    [][\A t \in Threads :
          (IsCheck(ret') /\ ret'.thread = t /\ hist' # hist)
          => LET tl == THREAD_CONFIG_PTR[t]
                 a  == IF tl # 0 THEN tl ELSE CONFIG_PTR
                 f  == ret'.fired
             IN  /\ UNCHANGED << CONFIG_PTR, THREAD_CONFIG_PTR, status, owner, guards, chaos_flag >>
                 /\ ret'.config = a
                 /\ \A b \in Addrs \ { a } : heap'[b] = heap[b] /\ hist'[b] = hist[b]
                 /\ AsBuilt(heap'[a]) = AsBuilt(heap[a])
                 /\ heap'[a].counter \in { heap[a].counter, heap[a].counter + 1 }
                 /\ heap'[a].failures_triggered =
                        heap[a].failures_triggered + (IF ret'.result THEN 1 ELSE 0)
                 /\ tl # 0 =>
                        /\ stats(heap'[CONFIG_PTR]) = stats(heap[CONFIG_PTR])
                        /\ Times(f, "on_check") = (IF heap[tl].on_check # "none" THEN 1 ELSE 0)
                        /\ Times(f, "predicate") = (IF heap[tl].predicate # "none" THEN 1 ELSE 0)
                        /\ Times(f, "on_failure") =
                               (IF ret'.result /\ heap[tl].on_failure # "none" THEN 1 ELSE 0)]_vars

\* thread 1 evaluated a failing call against its own hook-less configuration
\* while the global one, with hooks and a predicate, stayed untouched
C34_Witness ==
    /\ IsCheck(ret) /\ ret.thread = 1 /\ ret.config = THREAD_CONFIG_PTR[1] /\ ret.result
    /\ heap[CONFIG_PTR].on_check = "log" /\ heap[CONFIG_PTR].predicate = "flag"
    /\ heap[ret.config].on_check = "none" /\ heap[ret.config].predicate = "none"
    /\ ret.fired = << "should_trigger", "allow_list", "counter", "failures_triggered" >>
    /\ stats(heap[CONFIG_PTR]) = NoStats /\ hist[CONFIG_PTR] = << >>
    /\ stats(heap[ret.config]) = [total_checks |-> 1, total_failures |-> 1]

\* the evaluations recorded in h during which hook was called
Hooked(h, hook) == { i \in 1..Len(h) : Times(h[i].fired, hook) = 1 }

\* C35: hooks agree with counters.  For an unreleased configuration with both
\* hooks, none of whose evaluations is still in progress, on_failure has been
\* called total_failures times and never twice in one evaluation, and on_check
\* has been called once in each evaluation routed to the configuration, which
\* is at least total_checks times; also when the evaluations were made by
\* several threads at once.
C35_HooksAgreeWithCounters ==
    \A a \in Addrs :
        (status[a] = "live" /\ InFlight(a) = { }
            /\ heap[a].on_check # "none" /\ heap[a].on_failure # "none")
        => /\ \A i \in 1..Len(hist[a]) :
                 Times(hist[a][i].fired, "on_failure") <= 1
                 /\ Times(hist[a][i].fired, "on_check") <= 1
           /\ Cardinality(Hooked(hist[a], "on_failure")) = stats(heap[a]).total_failures
           /\ Cardinality(Hooked(hist[a], "on_check")) = Len(hist[a])
           /\ Len(hist[a]) >= stats(heap[a]).total_checks

\* the thread-local configuration behind a false predicate after two
\* evaluations: on_check called twice, no check counted, while the global
\* configuration has two failures and two on_failure calls to its name
C35_Witness ==
    \E a, b \in Addrs :
        /\ status[a] = "live" /\ InFlight(a) = { } /\ heap[a].predicate = "never"
        /\ Cardinality(Hooked(hist[a], "on_check")) = 2 /\ stats(heap[a]) = NoStats
        /\ status[b] = "live" /\ InFlight(b) = { } /\ heap[b].on_failure = "log"
        /\ Cardinality(Hooked(hist[b], "on_failure")) = 2
        /\ stats(heap[b]).total_failures = 2

\* C36 as stated: thread-local configurations are released at thread end.
\* Once a thread has terminated, every configuration that was installed in its
\* slot is eventually released, the one it never cleared or replaced included;
\* and no configuration is released twice.
C36_ReleasedAtThreadEnd ==
    /\ \A t \in Spawned :
          [](pc[t] = Exited => <>(\A a \in Addrs : owner[a] = t => status[a] = "released"))
    /\ [](\A a \in Addrs : status[a] # "released_twice")

\* C37 as stated: failure substitution.  Every call of a #[fallible] function
\* without enabled = false consults should_simulate_failure, and when the
\* verdict for its call site is true the call returns the failure value of
\* its declared return type, None for Option<T>, without running the body; in
\* particular optional_value returns None under a configuration that fails
\* every call.
C37_FailureSubstitution ==
    [][LET Function(name) == CHOOSE fn \in Functions : fn.name = name
           FailureValue(output) ==
               IF output.ident = "Option" THEN "None" ELSE "Err(simulated_failure)"
       IN  \A t \in Threads :
              /\ (pc[t] = Idle /\ pc'[t].op = "fallible"
                     /\ Function(pc'[t].call.op).attrs.enabled # "false")
                 => pc'[t].stage = "check"
              /\ (pc[t].op = "fallible" /\ pc'[t] = Idle
                     /\ Function(pc[t].call.op).attrs.enabled # "false")
                 => LET fn == Function(pc[t].call.op)
                    IN  /\ pc[t].call.fired = << "should_simulate_failure" >>
                        /\ pc[t].call.result => ret'.how = FailureValue(fn.output)
                        /\ ~pc[t].call.result => ret'.how = "body"
                        /\ heap[CONFIG_PTR].trigger_every = 1
                               => ret'.how = FailureValue(fn.output)]_vars

====
